---- MODULE Spec2Model ----
(***************************************************************************)
(* Instagram non-follower analyzer.                                        *)
(*                                                                         *)
(* Three scripts of the repository are modelled:                           *)
(*   src/unnamed/part_001  the current analyzer         (specification Spec)  *)
(*   src/unnamed/part_000  the earlier analyzer         (specification Spec0) *)
(*   src/main.js           the original fetch script (specification SpecMain) *)
(* Definitions of part_001 keep the source's names; the definitions of     *)
(* part_000 carry the suffix 0, those of main.js are the names of main.js. *)
(*                                                                         *)
(* A JavaScript string is a sequence of one-character strings, a JavaScript *)
(* Set is the sequence of its elements in insertion order (no duplicates), *)
(* a JSON value is a tagged record [t, v].                                 *)
(***************************************************************************)
EXTENDS Integers, Sequences, FiniteSets, TLC

VARIABLES
    state,          \* the `state` object of part_000 / part_001
    dom,            \* what the page shows: search box, list, statistics, loaders
    pending,        \* FileReader reads in flight, in the order they were started:
                    \* the side, and (history) whether a later read of the side started
    static,         \* part_000: progress of the static load started by initializeApp
    last,           \* history: the event handler that ran last and how it ended
    hist,           \* history: which sides were ever imported, latest import per side
    followersNames, \* main.js: the followersNames array
    followingNames, \* main.js: the followingNames array
    container,      \* main.js: the paragraphs appended to #users-list
    fetches         \* main.js: the two fetches and the files they are served

vars == <<state, dom, pending, static, last, hist,
          followersNames, followingNames, container, fetches>>

appVars == <<state, dom, pending, static, last, hist>>
mainVars == <<followersNames, followingNames, container, fetches>>

-----------------------------------------------------------------------------
(* Bounds of the model *)

\* longest array of relationship records in an uploaded or served file
MaxRecords == 2
\* most FileReader reads in flight at once
MaxPending == 2
\* part_000: records per slice of processInBatches. CONFIG.batchSize is 500;
\* the model scales it so that a file of MaxRecords records takes more than
\* one slice
batchSize == 1

-----------------------------------------------------------------------------
(* Sequences *)

Range(q) == {q[i] : i \in DOMAIN q}

NoDup(q) == \A i, j \in DOMAIN q : q[i] = q[j] => i = j

SeqsUpTo(S, n) == UNION {[1..k -> S] : k \in 0..n}

RemoveAt(q, i) == [j \in 1..(Len(q) - 1) |-> IF j < i THEN q[j] ELSE q[j + 1]]

\* Set.prototype.has on an insertion-ordered set
has(q, x) == \E i \in DOMAIN q : q[i] = x

RECURSIVE filterNotHas(_, _)
\* q.filter(user => !other.has(user))
filterNotHas(q, other) ==
    IF q = <<>> THEN <<>>
    ELSE IF ~has(other, Head(q)) THEN <<Head(q)>> \o filterNotHas(Tail(q), other)
         ELSE filterNotHas(Tail(q), other)

RECURSIVE filterHas(_, _)
\* q.filter(user => other.has(user))
filterHas(q, other) ==
    IF q = <<>> THEN <<>>
    ELSE IF has(other, Head(q)) THEN <<Head(q)>> \o filterHas(Tail(q), other)
         ELSE filterHas(Tail(q), other)

\* Set.prototype.add on an insertion-ordered set
SetAdd(q, x) == IF has(q, x) THEN q ELSE Append(q, x)

-----------------------------------------------------------------------------
(* Strings *)

\* String.prototype.toLowerCase on one character
LowerChar(c) ==
    CASE c = "A" -> "a"
      [] c = "B" -> "b"
      [] OTHER -> c

toLowerCase(str) == [i \in DOMAIN str |-> LowerChar(str[i])]

RECURSIVE trimStart(_)
trimStart(str) ==
    IF str # <<>> /\ Head(str) = " " THEN trimStart(Tail(str)) ELSE str

RECURSIVE trimEnd(_)
trimEnd(str) ==
    IF str # <<>> /\ str[Len(str)] = " " THEN trimEnd(SubSeq(str, 1, Len(str) - 1)) ELSE str

\* String.prototype.trim
trim(str) == trimEnd(trimStart(str))

\* String.prototype.includes
includes(str, term) ==
    \E i \in 0..(Len(str) - Len(term)) : SubSeq(str, i + 1, i + Len(term)) = term

RECURSIVE filterIncludes(_, _)
\* q.filter(user => user.toLowerCase().includes(term))
filterIncludes(q, term) ==
    IF q = <<>> THEN <<>>
    ELSE IF includes(toLowerCase(Head(q)), term)
         THEN <<Head(q)>> \o filterIncludes(Tail(q), term)
         ELSE filterIncludes(Tail(q), term)

\* primary collation weight of a character: letters regardless of case,
\* white space before letters
CharRank(c) ==
    CASE c = " " -> 0
      [] c \in {"a", "A"} -> 1
      [] c \in {"b", "B"} -> 2
      [] OTHER -> 3

\* tertiary weight: a lowercase letter before its uppercase form
CaseRank(c) == IF c \in {"A", "B"} THEN 1 ELSE 0

RECURSIVE CompareWeights(_, _, _)
\* lexicographic comparison of two strings by primary (TRUE) or tertiary weights
CompareWeights(a, b, primary) ==
    IF a = <<>> /\ b = <<>> THEN 0
    ELSE IF a = <<>> THEN -1
    ELSE IF b = <<>> THEN 1
    ELSE LET wa == IF primary THEN CharRank(Head(a)) ELSE CaseRank(Head(a))
             wb == IF primary THEN CharRank(Head(b)) ELSE CaseRank(Head(b))
         IN  IF wa < wb THEN -1
             ELSE IF wa > wb THEN 1
             ELSE CompareWeights(Tail(a), Tail(b), primary)

\* String.prototype.localeCompare: -1, 0 or 1
localeCompare(a, b) ==
    LET c == CompareWeights(a, b, TRUE)
    IN  IF c # 0 THEN c ELSE CompareWeights(a, b, FALSE)

\* the comparator of sortNonFollowers: compare, or -compare when descending
compareFn(a, b, sortAsc) ==
    LET compare == localeCompare(a, b)
    IN  IF sortAsc THEN compare ELSE 0 - compare

RECURSIVE InsertSorted(_, _, _)
\* x goes after every element it does not precede (the sort is stable)
InsertSorted(q, x, sortAsc) ==
    IF q = <<>> THEN <<x>>
    ELSE IF compareFn(x, Head(q), sortAsc) < 0 THEN <<x>> \o q
         ELSE <<Head(q)>> \o InsertSorted(Tail(q), x, sortAsc)

RECURSIVE ArraySort(_, _)
\* Array.prototype.sort with the comparator compareFn
ArraySort(q, sortAsc) ==
    IF q = <<>> THEN <<>>
    ELSE InsertSorted(ArraySort(SubSeq(q, 1, Len(q) - 1), sortAsc), q[Len(q)], sortAsc)

-----------------------------------------------------------------------------
(* JSON values *)

JNull == [t |-> "null", v |-> <<>>]
JUndef == [t |-> "undef", v |-> <<>>]
\* a number other than 0
JNum == [t |-> "num", v |-> <<>>]
JStr(str) == [t |-> "str", v |-> str]
JArr(a) == [t |-> "arr", v |-> a]
\* props: the own properties in enumeration order, each [k, val]
JObj(props) == [t |-> "obj", v |-> props]

Prop(key, val) == [k |-> key, val |-> val]

isArray(x) == x.t = "arr"

Nullish(x) == x.t \in {"null", "undef"}

\* ToBoolean
Truthy(x) ==
    CASE x.t \in {"null", "undef"} -> FALSE
      [] x.t = "str" -> x.v # <<>>
      [] OTHER -> TRUE

\* x[key] for a value that is neither null nor undefined
Get(x, key) ==
    IF x.t = "obj" /\ \E i \in DOMAIN x.v : x.v[i].k = key
    THEN x.v[CHOOSE i \in DOMAIN x.v :
                 x.v[i].k = key /\ \A j \in DOMAIN x.v : x.v[j].k = key => i <= j].val
    ELSE JUndef

-----------------------------------------------------------------------------
(* Files the user can select, and files the server can serve *)

\* an entry { value: str }
Entry(str) == JObj(<<Prop("value", JStr(str))>>)

\* a relationship record { string_list_data: [ ... ] }
Record(entries) == JObj(<<Prop("string_list_data", JArr(entries))>>)

\* the relationship records files are made of: well-formed ones, and the
\* malformed shapes the extraction code distinguishes
ItemSamples ==
    { Record(<<Entry(<<"a">>)>>),
      Record(<<Entry(<<"b">>)>>),
      \* the same username in two letter cases
      Record(<<Entry(<<"A">>), Entry(<<"a">>)>>),
      \* entries that carry no username: null, empty value, no value field
      Record(<<JNull, Entry(<<>>), JObj(<<>>)>>),
      \* a record without string_list_data
      JObj(<<Prop("no_string_list_data", JNum)>>),
      \* a record that is null
      JNull,
      \* string_list_data that is not a list
      JObj(<<Prop("string_list_data", JNum)>>),
      \* a value that is not a string, after an entry that is well formed
      Record(<<Entry(<<"a">>), JObj(<<Prop("value", JNum)>>)>>) }

DataArrays == SeqsUpTo(ItemSamples, MaxRecords)

RecordA == Record(<<Entry(<<"a">>)>>)
RecordB == Record(<<Entry(<<"b">>)>>)

\* parsed JSON that is not an array at top level
WrappedValues ==
    { JObj(<<Prop("relationships_followers", JArr(<<RecordA>>))>>),
      JObj(<<Prop("relationships_following", JArr(<<RecordB>>))>>),
      JObj(<<Prop("data", JArr(<<RecordA>>))>>),
      JObj(<<Prop("version", JNum), Prop("relationships_following", JArr(<<RecordB>>))>>),
      JObj(<<Prop("version", JNum), Prop("data", JArr(<<RecordA>>))>>),
      JObj(<<Prop("data", JArr(<<RecordA>>)), Prop("string_map_data", JArr(<<RecordB>>))>>),
      JObj(<<Prop("relationships_following", JArr(<<RecordA>>)),
             Prop("relationships_followers", JArr(<<RecordB>>))>>),
      JObj(<<>>), JNull, JNum, JStr(<<"a">>) }

JsonValues == {JArr(a) : a \in DataArrays} \cup WrappedValues

\* what reading a selected file delivers: a read error, text that is not
\* JSON, or text that parses to the value v
Files ==
    { [k |-> "readerror", v |-> JNull], [k |-> "badjson", v |-> JNull] }
    \cup { [k |-> "json", v |-> x] : x \in JsonValues }

Sides == {"followers", "following"}

-----------------------------------------------------------------------------
(* The data model of the files: the usernames a list of records holds *)

\* the entries of a record that has a list of entries
EntriesOf(item) ==
    LET sld == Get(item, "string_list_data")
    IN  IF isArray(sld) THEN Range(sld.v) ELSE {}

\* the username an entry holds, if it holds one
NamesOfEntry(entry) ==
    LET value == Get(entry, "value")
    IN  IF value.t = "str" /\ value.v # <<>> THEN {toLowerCase(value.v)} ELSE {}

\* the non-empty values of all entries of all records, lowercased
UsernamesOf(dataArray) ==
    UNION { UNION { NamesOfEntry(e) : e \in EntriesOf(dataArray[i]) } :
            i \in DOMAIN dataArray }

-----------------------------------------------------------------------------
(* part_001: import *)

\* a syntax error is swallowed and the promise resolves with an empty array
parseJsonFile_swallow(file) ==
    CASE file.k = "readerror" -> [ok |-> FALSE, data |-> JUndef, err |-> "readerror"]
      [] file.k = "badjson" -> [ok |-> TRUE, data |-> JArr(<<>>), err |-> "none"]
      [] OTHER -> [ok |-> TRUE, data |-> file.v, err |-> "none"]

\* FileReader.readAsText and JSON.parse: the promise resolves with the parsed
\* data or rejects
parseJsonFile(file) ==
    CASE file.k = "readerror" -> [ok |-> FALSE, data |-> JUndef, err |-> "readerror"]
      [] file.k = "badjson" -> [ok |-> FALSE, data |-> JUndef, err |-> "parseerror"]
      [] OTHER -> [ok |-> TRUE, data |-> file.v, err |-> "none"]

potentialKeys ==
    <<"relationships_followers", "relationships_following",
      "relationships_unfollowed_users", "string_map_data">>

\* an empty array is returned where the format is not recognized
extractDataArray_lenient(data) ==
    IF isArray(data) THEN [ok |-> TRUE, arr |-> data.v]
    ELSE IF data.t = "obj" /\ \E n \in DOMAIN potentialKeys : isArray(Get(data, potentialKeys[n]))
    THEN LET n == CHOOSE n \in DOMAIN potentialKeys :
                      /\ isArray(Get(data, potentialKeys[n]))
                      /\ \A m \in 1..(n - 1) : ~isArray(Get(data, potentialKeys[m]))
         IN  [ok |-> TRUE, arr |-> Get(data, potentialKeys[n]).v]
    ELSE IF data.t = "obj" /\ data.v # <<>> /\ data.v[1].k # "" /\ isArray(data.v[1].val)
    THEN [ok |-> TRUE, arr |-> data.v[1].val.v]
    ELSE [ok |-> TRUE, arr |-> <<>>]

\* the array of records inside the parsed data, or a throw
extractDataArray(data) ==
    IF isArray(data) THEN [ok |-> TRUE, arr |-> data.v]
    ELSE IF data.t = "obj" /\ \E n \in DOMAIN potentialKeys : isArray(Get(data, potentialKeys[n]))
    THEN LET n == CHOOSE n \in DOMAIN potentialKeys :
                      /\ isArray(Get(data, potentialKeys[n]))
                      /\ \A m \in 1..(n - 1) : ~isArray(Get(data, potentialKeys[m]))
         IN  [ok |-> TRUE, arr |-> Get(data, potentialKeys[n]).v]
    ELSE IF data.t = "obj" /\ data.v # <<>> /\ data.v[1].k # "" /\ isArray(data.v[1].val)
    THEN [ok |-> TRUE, arr |-> data.v[1].val.v]
    ELSE [ok |-> FALSE, arr |-> <<>>]

RECURSIVE forEachEntry_keepCase(_, _)
\* the username is added as written in the file, without toLowerCase
forEachEntry_keepCase(entries, acc) ==
    IF entries = <<>> \/ acc.threw THEN acc
    ELSE LET entry == Head(entries)
             value == IF Nullish(entry) THEN JUndef ELSE Get(entry, "value")
             next ==
                 IF ~Truthy(value) THEN acc
                 ELSE IF value.t = "str"
                      THEN [acc EXCEPT !.set = SetAdd(acc.set, value.v)]
                      ELSE [acc EXCEPT !.threw = TRUE]
         IN  forEachEntry_keepCase(Tail(entries), next)

RECURSIVE forEachEntry(_, _)
\* string_list_data.forEach(entry => { if (entry?.value) set.add(...) }):
\* acc is the set so far and whether a TypeError was thrown
forEachEntry(entries, acc) ==
    IF entries = <<>> \/ acc.threw THEN acc
    ELSE LET entry == Head(entries)
             value == IF Nullish(entry) THEN JUndef ELSE Get(entry, "value")
             next ==
                 IF ~Truthy(value) THEN acc
                 ELSE IF value.t = "str"
                      THEN [acc EXCEPT !.set = SetAdd(acc.set, toLowerCase(value.v))]
                      \* value.toLowerCase is not a function
                      ELSE [acc EXCEPT !.threw = TRUE]
         IN  forEachEntry(Tail(entries), next)

RECURSIVE forEachItem_requiresList(_, _)
\* item.string_list_data.forEach without the optional chaining: a record
\* without string_list_data throws
forEachItem_requiresList(dataArray, acc) ==
    IF dataArray = <<>> \/ acc.threw THEN acc
    ELSE LET item == Head(dataArray)
             sld == IF Nullish(item) THEN JUndef ELSE Get(item, "string_list_data")
             next ==
                 IF isArray(sld) THEN forEachEntry(sld.v, acc)
                 ELSE [acc EXCEPT !.threw = TRUE]
         IN  forEachItem_requiresList(Tail(dataArray), next)

RECURSIVE forEachItem(_, _)
\* dataArray.forEach(item => { item?.string_list_data?.forEach(...) })
forEachItem(dataArray, acc) ==
    IF dataArray = <<>> \/ acc.threw THEN acc
    ELSE LET item == Head(dataArray)
             sld == IF Nullish(item) THEN JUndef ELSE Get(item, "string_list_data")
             next ==
                 IF Nullish(sld) THEN acc
                 ELSE IF isArray(sld) THEN forEachEntry(sld.v, acc)
                      \* string_list_data.forEach is not a function
                      ELSE [acc EXCEPT !.threw = TRUE]
         IN  forEachItem(Tail(dataArray), next)

\* a copy-and-paste slip: the followers file is added to state.following
processFollowerDataBatch_wrongSet(s, dataArray) ==
    LET r == forEachItem(dataArray, [set |-> <<>>, threw |-> FALSE])
    IN  [st |-> [s EXCEPT !.following = r.set], threw |-> r.threw]

\* the state after the call and whether it threw
processFollowerDataBatch(s, dataArray) ==
    LET r == forEachItem(dataArray, [set |-> <<>>, threw |-> FALSE])
    IN  [st |-> [s EXCEPT !.followers = r.set], threw |-> r.threw]

processFollowingDataBatch(s, dataArray) ==
    LET r == forEachItem(dataArray, [set |-> <<>>, threw |-> FALSE])
    IN  [st |-> [s EXCEPT !.following = r.set], threw |-> r.threw]

-----------------------------------------------------------------------------
(* part_001: analysis and rendering *)

\* index.html has no .list-placeholder element inside #users-list
listPlaceholder == FALSE

\* the comparator ignores state.sortAsc
sortNonFollowers_ignoresFlag(s) == [s EXCEPT !.nonFollowers = ArraySort(s.nonFollowers, TRUE)]

sortNonFollowers(s) == [s EXCEPT !.nonFollowers = ArraySort(s.nonFollowers, s.sortAsc)]

\* the negation of the membership test is lost
calculateNonFollowers_keepFollowers(s) ==
    IF Len(s.following) = 0 THEN [s EXCEPT !.nonFollowers = <<>>]
    ELSE sortNonFollowers([s EXCEPT !.nonFollowers = filterHas(s.following, s.followers)])

\* the new non-followers are pushed onto the list of the previous run
calculateNonFollowers_accumulate(s) ==
    IF Len(s.following) = 0 THEN [s EXCEPT !.nonFollowers = <<>>]
    ELSE sortNonFollowers([s EXCEPT !.nonFollowers =
                                  @ \o filterNotHas(s.following, s.followers)])

calculateNonFollowers(s) ==
    IF Len(s.following) = 0 THEN [s EXCEPT !.nonFollowers = <<>>]
    ELSE sortNonFollowers([s EXCEPT !.nonFollowers = filterNotHas(s.following, s.followers)])

\* part_000: the comparator of calculateNonFollowers and renderResults
compareFn0(a, b, sortAsc) ==
    IF sortAsc THEN localeCompare(a, b) ELSE localeCompare(b, a)

RECURSIVE InsertSorted0(_, _, _)
InsertSorted0(q, x, sortAsc) ==
    IF q = <<>> THEN <<x>>
    ELSE IF compareFn0(x, Head(q), sortAsc) < 0 THEN <<x>> \o q
         ELSE <<Head(q)>> \o InsertSorted0(Tail(q), x, sortAsc)

RECURSIVE ArraySort0(_, _)
\* part_000: Array.prototype.sort with the comparator compareFn0
ArraySort0(q, sortAsc) ==
    IF q = <<>> THEN <<>>
    ELSE InsertSorted0(ArraySort0(SubSeq(q, 1, Len(q) - 1), sortAsc), q[Len(q)], sortAsc)

\* part_000: calculateNonFollowers
calculateNonFollowers0(s) ==
    [s EXCEPT !.nonFollowers = ArraySort0(filterNotHas(s.following, s.followers), s.sortAsc)]

updateStatistics(s, d) ==
    [d EXCEPT !.stats = [followers |-> Len(s.followers),
                         following |-> Len(s.following),
                         nonFollowers |-> Len(s.nonFollowers)]]

\* the search box is compared as typed, without toLowerCase
renderResults_caseSensitive(s, d) ==
    IF ~s.followersFileLoaded \/ ~s.followingFileLoaded \/ s.isDataProcessing
    THEN IF listPlaceholder /\ ~s.isDataProcessing
         THEN [d EXCEPT !.container = [loader |-> FALSE, kind |-> "placeholder", users |-> <<>>]]
         ELSE IF ~listPlaceholder /\ ~s.isDataProcessing
         THEN [d EXCEPT !.container = [loader |-> FALSE, kind |-> "uploadToBegin", users |-> <<>>]]
         ELSE d
    ELSE LET searchTerm == trim(d.searchInput)
             filteredUsers == IF searchTerm # <<>>
                              THEN filterIncludes(s.nonFollowers, searchTerm)
                              ELSE s.nonFollowers
             kind == IF Len(filteredUsers) = 0
                     THEN IF Len(s.nonFollowers) > 0 /\ searchTerm # <<>> THEN "noMatch"
                          ELSE IF Len(s.nonFollowers) = 0
                                  /\ (Len(s.followers) > 0 \/ Len(s.following) > 0)
                          THEN "goodNews"
                          ELSE "uploadToSee"
                     ELSE "list"
         IN  [d EXCEPT !.container = [loader |-> FALSE, kind |-> kind, users |-> filteredUsers]]

\* what #users-list shows after the call
renderResults(s, d) ==
    IF ~s.followersFileLoaded \/ ~s.followingFileLoaded \/ s.isDataProcessing
    THEN IF listPlaceholder /\ ~s.isDataProcessing
         THEN [d EXCEPT !.container = [loader |-> FALSE, kind |-> "placeholder", users |-> <<>>]]
         ELSE IF ~listPlaceholder /\ ~s.isDataProcessing
         THEN [d EXCEPT !.container = [loader |-> FALSE, kind |-> "uploadToBegin", users |-> <<>>]]
         ELSE d
    ELSE LET searchTerm == trim(toLowerCase(d.searchInput))
             filteredUsers == IF searchTerm # <<>>
                              THEN filterIncludes(s.nonFollowers, searchTerm)
                              ELSE s.nonFollowers
             kind == IF Len(filteredUsers) = 0
                     THEN IF Len(s.nonFollowers) > 0 /\ searchTerm # <<>> THEN "noMatch"
                          ELSE IF Len(s.nonFollowers) = 0
                                  /\ (Len(s.followers) > 0 \/ Len(s.following) > 0)
                          THEN "goodNews"
                          ELSE "uploadToSee"
                     ELSE "list"
         IN  [d EXCEPT !.container = [loader |-> FALSE, kind |-> kind, users |-> filteredUsers]]

\* the statements of processLoadedData after its two guards
analyse(s, d) ==
    LET s1 == [s EXCEPT !.isDataProcessing = TRUE]
        \* showLoader(dom.container)
        d1 == [d EXCEPT !.container.loader = TRUE]
        s2 == calculateNonFollowers(s1)
        d2 == renderResults(s2, updateStatistics(s2, d1))
    IN  \* finally: clearLoader(dom.container); state.isDataProcessing = false
        [st |-> [s2 EXCEPT !.isDataProcessing = FALSE],
         dm |-> [d2 EXCEPT !.container.loader = FALSE],
         calc |-> TRUE]

\* the analysis is skipped while one of the two sets is empty
processLoadedData_needsMembers(s, d) ==
    IF ~s.followersFileLoaded \/ ~s.followingFileLoaded
    THEN [st |-> s, dm |-> d, calc |-> FALSE]
    ELSE IF s.isDataProcessing \/ Len(s.followers) = 0 \/ Len(s.following) = 0
    THEN [st |-> s, dm |-> d, calc |-> FALSE]
    ELSE analyse(s, d)

\* state and page after the call, and whether calculateNonFollowers ran
processLoadedData(s, d) ==
    IF ~s.followersFileLoaded \/ ~s.followingFileLoaded
    THEN [st |-> s, dm |-> d, calc |-> FALSE]
    ELSE IF s.isDataProcessing THEN [st |-> s, dm |-> d, calc |-> FALSE]
    ELSE analyse(s, d)

\* the analysis is started as soon as one of the two files is loaded
checkAllDataReady_either(s, d) ==
    IF s.followersFileLoaded \/ s.followingFileLoaded
    THEN analyse(s, d)
    ELSE [st |-> s, dm |-> d, calc |-> FALSE]

checkAllDataReady(s, d) ==
    IF s.followersFileLoaded /\ s.followingFileLoaded
    THEN processLoadedData(s, d)
    ELSE [st |-> s, dm |-> d, calc |-> FALSE]

\* the catch block leaves the analysis marked as running
uploadFailed_stuck(s, d, type, err) ==
    [st |-> IF type = "followers"
            THEN [s EXCEPT !.followersFileLoaded = FALSE, !.isDataProcessing = TRUE]
            ELSE [s EXCEPT !.followingFileLoaded = FALSE, !.isDataProcessing = TRUE],
     dm |-> [d EXCEPT !.jsonLoader = FALSE],
     result |-> err, calc |-> FALSE]

\* the catch and finally blocks of handleFileUpload
uploadFailed(s, d, type, err) ==
    [st |-> IF type = "followers" THEN [s EXCEPT !.followersFileLoaded = FALSE]
            ELSE [s EXCEPT !.followingFileLoaded = FALSE],
     dm |-> [d EXCEPT !.jsonLoader = FALSE],
     result |-> err, calc |-> FALSE]

\* handleFileUpload from the moment the FileReader has finished: state and
\* page after the handler, how the import ended, whether the analysis ran
handleFileUpload(s, d, type, file) ==
    LET parsed == parseJsonFile(file)
        extracted == extractDataArray(parsed.data)
        dataArray == extracted.arr
        batch == IF type = "followers"
                 THEN processFollowerDataBatch(
                          [s EXCEPT !.followers = <<>>, !.uploadedFollowersData = "arr"],
                          dataArray)
                 ELSE processFollowingDataBatch(
                          [s EXCEPT !.following = <<>>, !.uploadedFollowingData = "arr"],
                          dataArray)
        loaded == IF type = "followers"
                  THEN [batch.st EXCEPT !.followersFileLoaded = TRUE]
                  ELSE [batch.st EXCEPT !.followingFileLoaded = TRUE]
        ready == checkAllDataReady(loaded, d)
    IN  IF ~parsed.ok THEN uploadFailed(s, d, type, parsed.err)
        ELSE IF ~extracted.ok THEN uploadFailed(s, d, type, "formaterror")
        ELSE IF batch.threw THEN uploadFailed(batch.st, d, type, "extracterror")
        ELSE [st |-> ready.st,
              dm |-> [ready.dm EXCEPT !.jsonLoader = FALSE],
              result |-> "ok", calc |-> ready.calc]

\* the flag is flipped and the list rendered, but state.nonFollowers is not
\* sorted again
toggleSort_noResort(s, d) ==
    LET s1 == [s EXCEPT !.sortAsc = ~s.sortAsc]
    IN  [st |-> s1, dm |-> renderResults(s1, d)]

toggleSort(s, d) ==
    LET s1 == sortNonFollowers([s EXCEPT !.sortAsc = ~s.sortAsc])
    IN  [st |-> s1, dm |-> renderResults(s1, d)]

-----------------------------------------------------------------------------
(* History variables *)

\* op: the handler; side: the side it imports; input: what the read delivered;
\* result: how the import ended; calc: calculateNonFollowers was executed;
\* names: the usernames of the file, for an import that succeeded
NoEvent ==
    [op |-> "init", side |-> "none", input |-> "none", result |-> "none",
     calc |-> FALSE, names |-> {}]

\* ever: the side was imported successfully at least once; calc:
\* calculateNonFollowers was executed at least once; latest: how the most
\* recently started import of the side ended, and the usernames of its file
NoHistory ==
    [ever |-> [followers |-> FALSE, following |-> FALSE],
     calc |-> FALSE,
     latest |-> [followers |-> [st |-> "none", names |-> {}],
                 following |-> [st |-> "none", names |-> {}]]]

\* the read at position i of pending is the most recently started of its side
IsLatest(i) == ~pending[i].superseded

\* the sides that have a read in flight
Reading == {pending[i].type : i \in DOMAIN pending}

\* the history after the read at position i ended with result r on a file
\* holding the usernames names
Recorded(i, r, calc, names) ==
    LET type == pending[i].type
        ok == r = "ok"
    IN  [ever |-> [hist.ever EXCEPT ![type] = @ \/ ok],
         calc |-> hist.calc \/ calc,
         latest |-> IF IsLatest(i)
                    THEN [hist.latest EXCEPT
                            ![type] = [st |-> IF ok THEN "ok" ELSE "failed",
                                       names |-> IF ok THEN names ELSE {}]]
                    ELSE hist.latest]

\* the state object as the script constructs it; uploadedFollowersData and
\* uploadedFollowingData hold null or an array, of which the scripts test only
\* the truth value: the model keeps the type tag
InitState ==
    [followers |-> <<>>, following |-> <<>>, nonFollowers |-> <<>>,
     uploadedFollowersData |-> "null", uploadedFollowingData |-> "null",
     sortAsc |-> TRUE, isDataProcessing |-> FALSE,
     followersFileLoaded |-> FALSE, followingFileLoaded |-> FALSE]

\* the page of part_001 after initializeApp: empty search box, #users-list as
\* in index.html and without a .loader.absolute element, no loader in
\* #jsonSource, statistics 0
InitDom ==
    [searchInput |-> <<>>,
     container |-> [loader |-> FALSE, kind |-> "initial", users |-> <<>>],
     jsonLoader |-> FALSE,
     stats |-> [followers |-> 0, following |-> 0, nonFollowers |-> 0]]

\* the variables of the scripts a specification does not run
StaticOff == [phase |-> "off", data |-> <<>>, index |-> 0]
MainOff ==
    /\ followersNames = <<>>
    /\ followingNames = <<>>
    /\ container = <<>>
    /\ fetches = <<>>

AppOff ==
    /\ state = InitState
    /\ dom = InitDom
    /\ pending = <<>>
    /\ static = StaticOff
    /\ hist = NoHistory

-----------------------------------------------------------------------------
(* part_001: the specification Spec *)

\* part_001 after initializeApp
Init ==
    /\ state = InitState
    /\ dom = InitDom
    /\ pending = <<>>
    /\ static = StaticOff
    /\ last = NoEvent
    /\ hist = NoHistory
    /\ MainOff

\* a file is chosen in one of the two file inputs: handleFileUpload up to
\* its await
SelectFile(type) ==
    /\ Len(pending) < MaxPending
    /\ pending' = Append([i \in DOMAIN pending |->
                              IF pending[i].type = type
                              THEN [pending[i] EXCEPT !.superseded = TRUE]
                              ELSE pending[i]],
                          [type |-> type, superseded |-> FALSE])
    /\ dom' = [dom EXCEPT !.jsonLoader = TRUE]
    /\ last' = [NoEvent EXCEPT !.op = "select", !.side = type]
    /\ hist' = [hist EXCEPT !.latest[type] = [st |-> "inflight", names |-> {}]]
    /\ UNCHANGED <<state, static>>
    /\ UNCHANGED mainVars

\* the FileReader of the read at position i finishes and delivers file:
\* the rest of handleFileUpload
FileRead(i, file) ==
    LET type == pending[i].type
        r == handleFileUpload(state, dom, type, file)
        names == IF r.result = "ok" THEN UsernamesOf(extractDataArray(file.v).arr) ELSE {}
    IN  /\ state' = r.st
        /\ dom' = r.dm
        /\ pending' = RemoveAt(pending, i)
        /\ last' = [op |-> "read", side |-> type, input |-> file.k,
                    result |-> r.result, calc |-> r.calc, names |-> names]
        /\ hist' = Recorded(i, r.result, r.calc, names)
        /\ UNCHANGED static
        /\ UNCHANGED mainVars

\* one file at a time: the next file is selected when the read of the
\* previous one has finished
Next ==
    \/ \E type \in Sides : pending = <<>> /\ SelectFile(type)
    \/ \E i \in DOMAIN pending, file \in Files : FileRead(i, file)

Spec == Init /\ [][Next]_vars

\* the files of the overlapping reads: usernames a, usernames b, no
\* usernames, text that is not JSON
RaceFiles ==
    { [k |-> "json", v |-> JArr(<<RecordA>>)],
      [k |-> "json", v |-> JArr(<<RecordB>>)],
      [k |-> "json", v |-> JArr(<<>>)],
      [k |-> "badjson", v |-> JNull] }

\* files are selected while earlier reads are still in flight, and the
\* reads finish in any order
NextRace ==
    \/ \E type \in Sides : SelectFile(type)
    \/ \E i \in DOMAIN pending, file \in RaceFiles : FileRead(i, file)

SpecRace == Init /\ [][NextRace]_vars

-----------------------------------------------------------------------------
(* calculateNonFollowers on its own: the specification SpecReconcile *)

Usernames == {<<"a">>, <<"b">>, <<"a", "b">>}

\* the Sets of usernames, in every insertion order
UsernameSets == {q \in SeqsUpTo(Usernames, Cardinality(Usernames)) : NoDup(q)}

InitReconcile ==
    /\ state \in [followers : UsernameSets, following : UsernameSets,
                  nonFollowers : {<<>>},
                  uploadedFollowersData : {"arr"}, uploadedFollowingData : {"arr"},
                  sortAsc : BOOLEAN, isDataProcessing : {FALSE},
                  followersFileLoaded : {TRUE}, followingFileLoaded : {TRUE}]
    /\ dom = InitDom
    /\ pending = <<>>
    /\ static = StaticOff
    /\ last = NoEvent
    /\ hist = NoHistory
    /\ MainOff

\* calculateNonFollowers of part_001 runs
Reconcile ==
    /\ state' = calculateNonFollowers(state)
    /\ last' = [NoEvent EXCEPT !.op = "calculateNonFollowers", !.calc = TRUE]
    /\ UNCHANGED <<dom, pending, static, hist>>
    /\ UNCHANGED mainVars

\* calculateNonFollowers of part_000 runs
Reconcile0 ==
    /\ state' = calculateNonFollowers0(state)
    /\ last' = [NoEvent EXCEPT !.op = "calculateNonFollowers0", !.calc = TRUE]
    /\ UNCHANGED <<dom, pending, static, hist>>
    /\ UNCHANGED mainVars

NextReconcile == Reconcile \/ Reconcile0

SpecReconcile == InitReconcile /\ [][NextReconcile]_vars

\* C1: after calculateNonFollowers has run, state.nonFollowers holds exactly
\* the usernames that are in the following set and not in the followers set,
\* each once, for every insertion order of the two sets.
C1_ExactDifference ==
    last.calc =>
        /\ Range(state.nonFollowers) = Range(state.following) \ Range(state.followers)
        /\ NoDup(state.nonFollowers)

\* both sets hold two usernames in opposite insertion orders, one in common
C1_Witness ==
    /\ last.calc
    /\ state.following = << <<"b">>, <<"a">> >>
    /\ state.followers = << <<"a">>, <<"a", "b">> >>
    /\ state.nonFollowers = << <<"b">> >>

-----------------------------------------------------------------------------
(* Claims about the imports of part_001, checked under Spec *)

Other(type) == IF type = "followers" THEN "following" ELSE "followers"

\* C2: once each side has been imported successfully at least once, the
\* elements of state.nonFollowers are state.following minus state.followers
\* at the end of every event handler.
C2_NonFollowersIsDifference ==
    (hist.ever.followers /\ hist.ever.following)
        => Range(state.nonFollowers) = Range(state.following) \ Range(state.followers)

\* C3: an import is all-or-nothing: after handleFileUpload the side's set is
\* the full username set of the new file, or what it was before the import.
C3_ImportAllOrNothing ==
    [][last'.op = "read" =>
         \/ last'.result = "ok" /\ Range(state'[last'.side]) = last'.names
         \/ state'[last'.side] = state[last'.side]]_vars

\* C4: text that is not valid JSON makes the import fail with a parse error
\* and leaves both sets and state.nonFollowers unchanged.
C4_InvalidJsonChangesNothing ==
    [][(last'.op = "read" /\ last'.input = "badjson") =>
         /\ last'.result = "parseerror"
         /\ state'.followers = state.followers
         /\ state'.following = state.following
         /\ state'.nonFollowers = state.nonFollowers]_vars

C4_Witness ==
    /\ last.op = "read"
    /\ last.input = "badjson"
    /\ last.side = "followers"
    /\ state.followers # <<>>
    /\ state.nonFollowers # <<>>

\* C5: a failed import leaves a side that was loaded before still counting
\* as loaded.
C5_FailurePreservesLoaded ==
    [][(last'.op = "read" /\ last'.result # "ok") =>
         /\ state.followersFileLoaded => state'.followersFileLoaded
         /\ state.followingFileLoaded => state'.followingFileLoaded]_vars

\* C6: after a successful import the side's set is exactly the username set
\* of the new file and the other side's set is unchanged.
C6_SuccessReplacesSide ==
    [][(last'.op = "read" /\ last'.result = "ok") =>
         /\ Range(state'[last'.side]) = last'.names
         /\ NoDup(state'[last'.side])
         /\ state'[Other(last'.side)] = state[Other(last'.side)]]_vars

\* a re-import of followers with a file that holds only b, the other side loaded
C6_Witness ==
    /\ last.op = "read"
    /\ last.result = "ok"
    /\ last.side = "followers"
    /\ last.names = {<<"b">>}
    /\ state.followers = <<(<<"b">>)>>
    /\ <<"a">> \in Range(state.following)
    /\ hist.calc

\* C7: as long as only one side has ever been imported successfully,
\* state.nonFollowers is the empty initial list and calculateNonFollowers
\* has not been executed.
C7_NoAnalysisBeforeBothSides ==
    ~(hist.ever.followers /\ hist.ever.following)
        => (state.nonFollowers = <<>> /\ ~hist.calc)

\* following imported with usernames, an import of followers has failed
C7_Witness ==
    /\ hist.ever.following
    /\ ~hist.ever.followers
    /\ state.following # <<>>
    /\ hist.latest.followers.st = "failed"

-----------------------------------------------------------------------------
(* Claims about overlapping imports of part_001, checked under SpecRace *)

\* C9: when the most recently started import of a side has succeeded and no
\* read of that side is in flight any more, the side's set is the one
\* extracted from that import's file.
C9_LaterImportWins ==
    \A type \in Sides :
        (hist.latest[type].st = "ok" /\ type \notin Reading)
            => Range(state[type]) = hist.latest[type].names

-----------------------------------------------------------------------------
(* main.js: the specification SpecMain *)

\* the records the served files are made of
MainItems ==
    { RecordA, RecordB, JObj(<<Prop("no_string_list_data", JNum)>>), JNull }

\* what a fetch can end with: a network error, a body that is not JSON, or
\* a body that parses to v
MainFiles ==
    { [k |-> "neterror", v |-> JNull], [k |-> "badjson", v |-> JNull],
      [k |-> "json", v |-> JObj(<<Prop("relationships_following", JArr(<<RecordA>>))>>)] }
    \cup { [k |-> "json", v |-> JArr(a)] : a \in SeqsUpTo(MainItems, MaxRecords) }

RECURSIVE pushValues(_, _)
\* item.string_list_data.forEach(stringData => namesArray.push(stringData.value))
pushValues(entries, acc) ==
    IF entries = <<>> \/ acc.threw THEN acc
    ELSE LET stringData == Head(entries)
             next == IF Nullish(stringData) THEN [acc EXCEPT !.threw = TRUE]
                     ELSE [acc EXCEPT !.arr = Append(acc.arr, Get(stringData, "value"))]
         IN  pushValues(Tail(entries), next)

RECURSIVE pushItems(_, _)
\* data.forEach(item => { ... })
pushItems(data, acc) ==
    IF data = <<>> \/ acc.threw THEN acc
    ELSE LET item == Head(data)
             sld == IF Nullish(item) THEN JUndef ELSE Get(item, "string_list_data")
             next == IF Nullish(item) THEN [acc EXCEPT !.threw = TRUE]
                     ELSE IF ~Truthy(sld) THEN acc
                     ELSE IF isArray(sld) THEN pushValues(sld.v, acc)
                     ELSE [acc EXCEPT !.threw = TRUE]
         IN  pushItems(Tail(data), next)

RECURSIVE filterNotIncluded(_, _)
\* q.filter(name => !other.includes(name))
filterNotIncluded(q, other) ==
    IF q = <<>> THEN <<>>
    ELSE IF \E i \in DOMAIN other : other[i] = Head(q)
         THEN filterNotIncluded(Tail(q), other)
         ELSE <<Head(q)>> \o filterNotIncluded(Tail(q), other)

\* the paragraphs of #users-list after the call
getUsersWhoDonotFollowBack(following, followers, cont) ==
    LET usersWhoDontFollowBack == filterNotIncluded(following, followers)
    IN  IF Len(usersWhoDontFollowBack) > 0 THEN Append(cont, usersWhoDontFollowBack)
        ELSE cont

\* the then and catch callbacks of one fetch: the names array afterwards,
\* whether the catch callback ran, whether getUsersWhoDonotFollowBack is called
fetchAndProcessJSON(namesArray, file) ==
    LET data == file.v
        r == IF file.k = "json" /\ isArray(data)
             THEN pushItems(data.v, [arr |-> namesArray, threw |-> FALSE])
             ELSE [arr |-> namesArray, threw |-> TRUE]
    IN  [arr |-> r.arr, threw |-> r.threw,
         call |-> ~r.threw /\ Len(r.arr) > 0]

\* the script has run: both arrays empty, both fetches under way, each with
\* the file it will be served
InitMain ==
    /\ followersNames = <<>>
    /\ followingNames = <<>>
    /\ container = <<>>
    /\ fetches \in [followers : [st : {"pending"}, file : MainFiles],
                    following : [st : {"pending"}, file : MainFiles]]
    /\ last = NoEvent
    /\ AppOff

\* the fetch of one of the two files settles
Fetched(type) ==
    /\ fetches[type].st = "pending"
    /\ LET r == fetchAndProcessJSON(
                    IF type = "followers" THEN followersNames ELSE followingNames,
                    fetches[type].file)
           fr == IF type = "followers" THEN r.arr ELSE followersNames
           fg == IF type = "following" THEN r.arr ELSE followingNames
       IN  /\ followersNames' = fr
           /\ followingNames' = fg
           /\ container' = IF r.call THEN getUsersWhoDonotFollowBack(fg, fr, container)
                           ELSE container
           /\ fetches' = [fetches EXCEPT ![type].st = IF r.threw THEN "failed" ELSE "done"]
           /\ last' = [NoEvent EXCEPT !.op = "fetched", !.side = type, !.calc = r.call,
                                      !.result = IF r.threw THEN "failed" ELSE "ok"]
    /\ UNCHANGED <<state, dom, pending, static, hist>>

NextMain == \E type \in Sides : Fetched(type)

SpecMain == InitMain /\ [][NextMain]_vars

\* all values of all entries of a served array of well-formed records
CompleteList(file) ==
    UNION { {Get(e, "value") : e \in EntriesOf(file.v.v[i])} : i \in DOMAIN file.v.v }

\* the file is an array of records that have a list of entries
WellFormed(file) ==
    /\ file.k = "json"
    /\ isArray(file.v)
    /\ file.v.v # <<>>
    /\ \A i \in DOMAIN file.v.v : file.v.v[i] \in {RecordA, RecordB}

\* C8: for either completion order of the two fetches of well-formed files,
\* getUsersWhoDonotFollowBack runs only when both lists are loaded, and every
\* result appended to the page is the complete following list minus the
\* complete followers list.
C8_ResultFromCompleteLists ==
    (WellFormed(fetches.followers.file) /\ WellFormed(fetches.following.file)) =>
        /\ last.calc => (fetches.followers.st = "done" /\ fetches.following.st = "done")
        /\ \A i \in DOMAIN container :
              Range(container[i]) = CompleteList(fetches.following.file)
                                        \ CompleteList(fetches.followers.file)

-----------------------------------------------------------------------------
(* part_000: the specification Spec0 *)

\* the state object of part_000 as the script constructs it
InitState0 ==
    [followers |-> <<>>, following |-> <<>>, nonFollowers |-> <<>>,
     uploadedFollowersData |-> "null", uploadedFollowingData |-> "null",
     sortAsc |-> TRUE, isDataProcessing |-> FALSE]

\* the page as index.html delivers it: #users-list holds a .loader element
\* and nothing else; errors counts the p.error elements of #users-list
InitDom0 ==
    [searchInput |-> <<>>,
     container |-> [loader |-> TRUE, kind |-> "initial", users |-> <<>>, errors |-> 0],
     stats |-> [followers |-> 0, following |-> 0, nonFollowers |-> 0]]

showLoader0(s, d) ==
    IF ~d.container.loader
    THEN [st |-> [s EXCEPT !.isDataProcessing = TRUE],
          dm |-> [d EXCEPT !.container.loader = TRUE]]
    ELSE [st |-> s, dm |-> d]

clearLoader0(s, d) ==
    [st |-> [s EXCEPT !.isDataProcessing = FALSE],
     dm |-> [d EXCEPT !.container.loader = FALSE]]

showError0(d, clearPrevious) ==
    IF clearPrevious
    THEN [d EXCEPT !.container =
              [loader |-> FALSE, kind |-> "empty", users |-> <<>>, errors |-> 1]]
    ELSE [d EXCEPT !.container.errors = @ + 1]

\* FileReader.readAsText and JSON.parse of part_000
parseJsonFile0(file) ==
    CASE file.k = "readerror" -> [ok |-> FALSE, data |-> JUndef]
      [] file.k = "badjson" -> [ok |-> FALSE, data |-> JUndef]
      [] OTHER -> [ok |-> TRUE, data |-> file.v]

\* Array.isArray(data) ? data : data[Object.keys(data)[0]], and the test
\* that the result is an array: the array, or a throw
dataArrayOf(data) ==
    IF isArray(data) THEN [ok |-> TRUE, arr |-> data.v]
    ELSE IF data.t = "obj" /\ data.v # <<>> /\ isArray(data.v[1].val)
    THEN [ok |-> TRUE, arr |-> data.v[1].val.v]
    ELSE [ok |-> FALSE, arr |-> <<>>]

\* processFollowerData / processFollowingData of part_000 on the set acc.set:
\* item.string_list_data?.forEach(entry => { if (entry?.value) set.add(...) })
processData0(item, acc) ==
    IF Nullish(item) THEN [acc EXCEPT !.threw = TRUE]
    ELSE LET sld == Get(item, "string_list_data")
         IN  IF Nullish(sld) THEN acc
             ELSE IF isArray(sld) THEN forEachEntry(sld.v, acc)
             ELSE [acc EXCEPT !.threw = TRUE]

RECURSIVE flatMap0(_, _)
\* dataArray.flatMap(item => item.string_list_data || [])
flatMap0(dataArray, acc) ==
    IF dataArray = <<>> \/ acc.threw THEN acc
    ELSE LET item == Head(dataArray)
             sld == IF Nullish(item) THEN JUndef ELSE Get(item, "string_list_data")
             next == IF Nullish(item) THEN [acc EXCEPT !.threw = TRUE]
                     ELSE IF ~Truthy(sld) THEN acc
                     ELSE IF isArray(sld) THEN [acc EXCEPT !.arr = @ \o sld.v]
                     ELSE [acc EXCEPT !.arr = Append(@, sld)]
         IN  flatMap0(Tail(dataArray), next)

\* the state after the call and whether it threw
processFollowerDataBatch0(s, dataArray) ==
    LET flat == flatMap0(dataArray, [arr |-> <<>>, threw |-> FALSE])
        r == processData0(Record(flat.arr), [set |-> <<>>, threw |-> FALSE])
    IN  IF flat.threw THEN [st |-> [s EXCEPT !.followers = <<>>], threw |-> TRUE]
        ELSE [st |-> [s EXCEPT !.followers = r.set], threw |-> r.threw]

processFollowingDataBatch0(s, dataArray) ==
    LET flat == flatMap0(dataArray, [arr |-> <<>>, threw |-> FALSE])
        r == processData0(Record(flat.arr), [set |-> <<>>, threw |-> FALSE])
    IN  IF flat.threw THEN [st |-> [s EXCEPT !.following = <<>>], threw |-> TRUE]
        ELSE [st |-> [s EXCEPT !.following = r.set], threw |-> r.threw]

updateStatistics0(s, d) ==
    [d EXCEPT !.stats = [followers |-> Len(s.followers),
                         following |-> Len(s.following),
                         nonFollowers |-> Len(s.nonFollowers)]]

\* what #users-list shows after the call: innerHTML = '' removes the loader
\* and the error paragraphs
renderResults0(s, d) ==
    LET searchTerm == toLowerCase(d.searchInput)
        filteredUsers == ArraySort0(filterIncludes(s.nonFollowers, searchTerm), s.sortAsc)
        kind == IF Len(filteredUsers) = 0
                THEN IF Len(s.nonFollowers) > 0 /\ searchTerm # <<>> THEN "noMatch"
                     ELSE IF Len(s.followers) > 0 \/ Len(s.following) > 0
                     THEN "everyoneFollowsBack"
                     ELSE "uploadToBegin"
                ELSE "list"
    IN  [d EXCEPT !.container =
             [loader |-> FALSE, kind |-> kind, users |-> filteredUsers, errors |-> 0]]

\* state and page after the call, and whether calculateNonFollowers ran
processLoadedData0(s, d) ==
    IF Len(s.followers) = 0 \/ Len(s.following) = 0
    THEN [st |-> s, dm |-> d, calc |-> FALSE]
    ELSE LET shown == showLoader0(s, d)
             s1 == calculateNonFollowers0(shown.st)
             d1 == renderResults0(s1, updateStatistics0(s1, shown.dm))
             cleared == clearLoader0(s1, d1)
         IN  [st |-> cleared.st, dm |-> cleared.dm, calc |-> TRUE]

checkUploadedDataReady(s, d) ==
    IF s.uploadedFollowersData # "null" /\ s.uploadedFollowingData # "null"
    THEN processLoadedData0(s, d)
    ELSE IF s.uploadedFollowersData # "null" \/ s.uploadedFollowingData # "null"
    THEN LET cleared == clearLoader0(s, d)
         IN  [st |-> cleared.st, dm |-> cleared.dm, calc |-> FALSE]
    ELSE [st |-> s, dm |-> d, calc |-> FALSE]

\* the catch block of handleFileUpload of part_000
uploadFailed0(s, d) ==
    LET cleared == clearLoader0(s, showError0(d, TRUE))
    IN  [st |-> cleared.st, dm |-> cleared.dm, result |-> "failed", calc |-> FALSE]

\* handleFileUpload of part_000 from the moment the FileReader has finished
handleFileUpload0(s, d, type, file) ==
    LET parsed == parseJsonFile0(file)
        extracted == IF Nullish(parsed.data) THEN [ok |-> FALSE, arr |-> <<>>]
                     ELSE dataArrayOf(parsed.data)
        batch == IF type = "followers"
                 THEN processFollowerDataBatch0(
                          [s EXCEPT !.uploadedFollowersData = "arr"], extracted.arr)
                 ELSE processFollowingDataBatch0(
                          [s EXCEPT !.uploadedFollowingData = "arr"], extracted.arr)
        ready == checkUploadedDataReady(batch.st, d)
    IN  IF ~parsed.ok \/ ~extracted.ok THEN uploadFailed0(s, d)
        ELSE IF batch.threw THEN uploadFailed0(batch.st, d)
        ELSE [st |-> ready.st, dm |-> ready.dm, result |-> "ok", calc |-> ready.calc]

RECURSIVE processBatch(_, _, _, _)
\* one slice of processInBatches with processFollowerData as the processor:
\* the records index + 1 .. end (counted from 1) go through the processor,
\* and what a record throws is caught and logged
processBatch(set, data, index, end) ==
    IF index >= end THEN set
    ELSE processBatch(processData0(data[index + 1], [set |-> set, threw |-> FALSE]).set,
                      data, index + 1, end)

Min(a, b) == IF a < b THEN a ELSE b

\* loadStaticJsonData has thrown: its finally block, then the catch block of
\* initializeApp
staticFailed(s, d) ==
    clearLoader0([s EXCEPT !.isDataProcessing = FALSE], showError0(d, FALSE))

\* processInBatches has resolved: the finally block of loadStaticJsonData,
\* then processLoadedData in initializeApp
staticLoaded(s, d) ==
    processLoadedData0([s EXCEPT !.isDataProcessing = FALSE], d)

\* the files the server can serve as followers_1.json
StaticFiles ==
    { [k |-> "neterror", v |-> JNull], [k |-> "badjson", v |-> JNull],
      [k |-> "json", v |-> JNull],
      [k |-> "json", v |-> JObj(<<Prop("relationships_followers", JArr(<<RecordA>>))>>)] }
    \cup { [k |-> "json", v |-> JArr(a)] : a \in SeqsUpTo({RecordA, RecordB, JNull}, MaxRecords) }

\* the files the user selects in part_000
Files0 ==
    { [k |-> "badjson", v |-> JNull],
      [k |-> "json", v |-> JArr(<<>>)],
      [k |-> "json", v |-> JArr(<<RecordA>>)],
      [k |-> "json", v |-> JArr(<<RecordB>>)],
      [k |-> "json", v |-> JArr(<<JNull>>)],
      [k |-> "json", v |-> JObj(<<Prop("relationships_following", JArr(<<RecordA, RecordB>>))>>)] }

\* initializeApp has run up to its await: showLoader found the loader of
\* index.html and did nothing, loadStaticJsonData(followersPath) has set
\* isDataProcessing and waits for its fetch, loadStaticJsonData(followingPath)
\* has found isDataProcessing set and has returned
Init0 ==
    /\ state = [InitState0 EXCEPT !.isDataProcessing = TRUE]
    /\ dom = InitDom0
    /\ pending = <<>>
    /\ static = [phase |-> "fetching", data |-> <<>>, index |-> 0]
    /\ last = NoEvent
    /\ hist = NoHistory
    /\ MainOff

\* the fetch of followers_1.json settles: loadStaticJsonData up to the end of
\* the first slice of processInBatches, and to its end if that is the only one
StaticFetched(file) ==
    /\ static.phase = "fetching"
    /\ LET extracted == IF file.k # "json" \/ Nullish(file.v)
                        THEN [ok |-> FALSE, arr |-> <<>>]
                        ELSE dataArrayOf(file.v)
           data == extracted.arr
           end == Min(batchSize, Len(data))
           s1 == [state EXCEPT !.followers = processBatch(@, data, 0, end)]
           failed == staticFailed(state, dom)
           loaded == staticLoaded(s1, dom)
       IN  IF ~extracted.ok
           THEN /\ state' = failed.st
                /\ dom' = failed.dm
                /\ static' = [phase |-> "failed", data |-> <<>>, index |-> 0]
                /\ last' = [NoEvent EXCEPT !.op = "static", !.result = "failed"]
           ELSE IF end < Len(data)
           THEN /\ state' = s1
                /\ dom' = dom
                /\ static' = [phase |-> "batching", data |-> data, index |-> end]
                /\ last' = [NoEvent EXCEPT !.op = "static", !.result = "slice"]
           ELSE /\ state' = loaded.st
                /\ dom' = loaded.dm
                /\ static' = [phase |-> "done", data |-> <<>>, index |-> 0]
                /\ last' = [NoEvent EXCEPT !.op = "static", !.result = "ok",
                                           !.calc = loaded.calc]
    /\ UNCHANGED <<pending, hist>>
    /\ UNCHANGED mainVars

\* the timer of processInBatches fires: the next slice
StaticBatch ==
    /\ static.phase = "batching"
    /\ LET end == Min(static.index + batchSize, Len(static.data))
           s1 == [state EXCEPT !.followers = processBatch(@, static.data, static.index, end)]
           loaded == staticLoaded(s1, dom)
       IN  IF end < Len(static.data)
           THEN /\ state' = s1
                /\ dom' = dom
                /\ static' = [static EXCEPT !.index = end]
                /\ last' = [NoEvent EXCEPT !.op = "static", !.result = "slice"]
           ELSE /\ state' = loaded.st
                /\ dom' = loaded.dm
                /\ static' = [phase |-> "done", data |-> <<>>, index |-> 0]
                /\ last' = [NoEvent EXCEPT !.op = "static", !.result = "ok",
                                           !.calc = loaded.calc]
    /\ UNCHANGED <<pending, hist>>
    /\ UNCHANGED mainVars

\* a file is chosen in one of the two file inputs: handleFileUpload of
\* part_000 up to its await
SelectFile0(type) ==
    /\ Len(pending) < MaxPending
    /\ LET shown == showLoader0(state, dom)
       IN  /\ state' = shown.st
           /\ dom' = shown.dm
    /\ pending' = Append([i \in DOMAIN pending |->
                              IF pending[i].type = type
                              THEN [pending[i] EXCEPT !.superseded = TRUE]
                              ELSE pending[i]],
                          [type |-> type, superseded |-> FALSE])
    /\ last' = [NoEvent EXCEPT !.op = "select", !.side = type]
    /\ UNCHANGED <<static, hist>>
    /\ UNCHANGED mainVars

\* the FileReader of the read at position i finishes and delivers file:
\* the rest of handleFileUpload of part_000
FileRead0(i, file) ==
    LET type == pending[i].type
        r == handleFileUpload0(state, dom, type, file)
    IN  /\ state' = r.st
        /\ dom' = r.dm
        /\ pending' = RemoveAt(pending, i)
        /\ last' = [NoEvent EXCEPT !.op = "read", !.side = type, !.input = file.k,
                                   !.result = r.result, !.calc = r.calc]
        /\ UNCHANGED <<static, hist>>
        /\ UNCHANGED mainVars

Next0 ==
    \/ \E file \in StaticFiles : StaticFetched(file)
    \/ StaticBatch
    \/ \E type \in Sides : SelectFile0(type)
    \/ \E i \in DOMAIN pending, file \in Files0 : FileRead0(i, file)

Spec0 == Init0 /\ [][Next0]_vars

\* C10: while the batched static load of part_000 is between two slices, the
\* handler of an upload of the same side (followers) leaves state.followers
\* as it is, and no upload handler runs calculateNonFollowers.
C10_NoInterleavedWriters ==
    [][ (static.phase = "batching" /\ last'.op = "read") =>
            /\ last'.side = "followers" => state'.followers = state.followers
            /\ ~last'.calc ]_vars

-----------------------------------------------------------------------------
(* Username extraction on its own: the specification SpecExtract *)

\* a record without string_list_data
NoListRecord == JObj(<<Prop("no_string_list_data", JNum)>>)

\* the records of the arrays the extraction is applied to: a username in
\* lowercase, the same in capitals, a username followed by entries that carry
\* none (null, empty value, no value field), a record without
\* string_list_data, a record that is null
ExtractItems ==
    { RecordA,
      Record(<<Entry(<<"A">>)>>),
      Record(<<Entry(<<"b">>), JNull, Entry(<<>>), JObj(<<>>)>>),
      NoListRecord,
      JNull }

ExtractArrays == SeqsUpTo(ExtractItems, MaxRecords)

\* the two arrays of records to extract from are drawn, and kept in the
\* history; nothing is extracted yet
InitExtract ==
    /\ state = InitState
    /\ dom = InitDom
    /\ pending = <<>>
    /\ static = StaticOff
    /\ \E x, y \in ExtractArrays :
          last = [NoEvent EXCEPT !.input = [followers |-> x, following |-> y]]
    /\ hist = NoHistory
    /\ MainOff

\* part_001: state.followers.clear() / state.following.clear() of
\* handleFileUpload and processFollowerDataBatch / processFollowingDataBatch
\* are applied to the array of the side
Extract(type) ==
    /\ LET r == IF type = "followers"
                THEN processFollowerDataBatch([state EXCEPT !.followers = <<>>],
                                              last.input[type])
                ELSE processFollowingDataBatch([state EXCEPT !.following = <<>>],
                                               last.input[type])
       IN  /\ state' = r.st
           /\ last' = [last EXCEPT !.op = "extract", !.side = type, !.calc = FALSE,
                                   !.result = IF r.threw THEN "threw" ELSE "ok"]
    /\ UNCHANGED <<dom, pending, static, hist>>
    /\ UNCHANGED mainVars

\* part_000: processFollowerDataBatch / processFollowingDataBatch are applied
\* to the array of the side
Extract0(type) ==
    /\ LET r == IF type = "followers"
                THEN processFollowerDataBatch0(state, last.input[type])
                ELSE processFollowingDataBatch0(state, last.input[type])
       IN  /\ state' = r.st
           /\ last' = [last EXCEPT !.op = "extract0", !.side = type, !.calc = FALSE,
                                   !.result = IF r.threw THEN "threw" ELSE "ok"]
    /\ UNCHANGED <<dom, pending, static, hist>>
    /\ UNCHANGED mainVars

\* calculateNonFollowers of part_001 runs on the two sets
Compare ==
    /\ last.op \in {"extract", "extract0"}
    /\ state' = calculateNonFollowers(state)
    /\ last' = [last EXCEPT !.op = "compare", !.calc = TRUE]
    /\ UNCHANGED <<dom, pending, static, hist>>
    /\ UNCHANGED mainVars

NextExtract ==
    \/ \E type \in Sides : Extract(type)
    \/ \E type \in Sides : Extract0(type)
    \/ Compare

SpecExtract == InitExtract /\ [][NextExtract]_vars

\* C11: every element of state.followers and state.following is a non-empty
\* string equal to its own lowercase form and is stored once, and after a
\* comparison no non-follower equals, letter case apart, a stored follower.
C11_LowercaseUsernames ==
    /\ \A type \in Sides :
          /\ NoDup(state[type])
          /\ \A u \in Range(state[type]) : u # <<>> /\ u = toLowerCase(u)
    /\ last.calc =>
          \A u \in Range(state.nonFollowers), f \in Range(state.followers) :
              toLowerCase(u) # toLowerCase(f)

\* the following file holds A and a, the followers file holds a: A and a are
\* stored as the one element a, which is not a non-follower
C11_Witness ==
    /\ last.op = "compare"
    /\ last.input.following = << Record(<<Entry(<<"A">>)>>), RecordA >>
    /\ last.input.followers = << RecordA >>
    /\ state.followers = << <<"a">> >>
    /\ state.following = << <<"a">> >>
    /\ state.nonFollowers = <<>>

\* a record the extraction is meant to read: a list of entries, each null or
\* an object whose value, if it has one, is a string
ReadableRecord(item) ==
    /\ item.t = "obj"
    /\ isArray(Get(item, "string_list_data"))
    /\ \A e \in EntriesOf(item) :
          Nullish(e) \/ (e.t = "obj" /\ Get(e, "value").t \in {"str", "undef"})

\* an object that has no string_list_data
LacksList(item) == item.t = "obj" /\ Get(item, "string_list_data") = JUndef

\* C12: on an array in which every record either lacks string_list_data or is
\* readable, extraction (part_001 and part_000) does not fail, and the set is
\* exactly the lowercased non-empty values of the entries of the readable records.
C12_RecordsWithoutListSkipped ==
    LET dataArray == last.input[last.side]
    IN  (/\ last.op \in {"extract", "extract0"}
         /\ \A i \in DOMAIN dataArray :
               LacksList(dataArray[i]) \/ ReadableRecord(dataArray[i]))
            => /\ last.result = "ok"
               /\ Range(state[last.side]) =
                      UNION { UNION { NamesOfEntry(e) : e \in EntriesOf(dataArray[i]) \ {JNull} } :
                              i \in {j \in DOMAIN dataArray : ReadableRecord(dataArray[j])} }

\* part_001 has read a file whose first record has no string_list_data
C12_Witness ==
    /\ last.op = "extract"
    /\ last.side = "followers"
    /\ last.input.followers = << NoListRecord, RecordA >>
    /\ last.result = "ok"
    /\ state.followers = << <<"a">> >>

-----------------------------------------------------------------------------
(* Locating the array of records: the specification SpecFormat *)

\* property names of the wrapper objects: the four known keys, a key that is
\* not known, and the empty string
FormatKeys ==
    {potentialKeys[n] : n \in DOMAIN potentialKeys} \cup {"data", ""}

\* property values of the wrapper objects: two arrays of records that hold
\* different usernames, an empty array, and a number
FormatVals == { JArr(<<RecordA>>), JArr(<<RecordB>>), JArr(<<>>), JNum }

\* parsed JSON: arrays, primitives, null, and objects of up to two properties
FormatValues ==
    { JArr(<<>>), JArr(<<NoListRecord>>), JArr(<<RecordA>>), JArr(<<RecordA, RecordB>>),
      JNull, JNum, JStr(<<"a">>), JObj(<<>>) }
    \cup { JObj(<<Prop(k, v)>>) : k \in FormatKeys, v \in FormatVals }
    \cup { JObj(<<Prop(q[1], q[3]), Prop(q[2], q[4])>>) :
               q \in {r \in FormatKeys \X FormatKeys \X FormatVals \X FormatVals :
                          r[1] # r[2]} }

\* state and page after the followers file [a] and then the following file
\* [a, b] were imported and analysed
Analysed ==
    LET first == handleFileUpload(InitState, InitDom, "followers",
                                  [k |-> "json", v |-> JArr(<<RecordA>>)])
    IN  handleFileUpload(first.st, first.dm, "following",
                         [k |-> "json", v |-> JArr(<<RecordA, RecordB>>)])

\* the parsed content of the file is drawn, and kept in the history; the
\* file is imported into the page as loaded, or after an analysis
InitFormat ==
    /\ \/ state = InitState /\ dom = InitDom
       \/ state = Analysed.st /\ dom = Analysed.dm
    /\ pending = <<>>
    /\ static = StaticOff
    /\ \E data \in FormatValues : last = [NoEvent EXCEPT !.input = data]
    /\ hist = NoHistory
    /\ MainOff

\* a file with that content is selected for a side and read: handleFileUpload
\* from showLoader to clearLoader
Import(type) ==
    /\ LET r == handleFileUpload(state, [dom EXCEPT !.jsonLoader = TRUE], type,
                                 [k |-> "json", v |-> last.input])
       IN  /\ state' = r.st
           /\ dom' = r.dm
           /\ last' = [last EXCEPT !.op = "import", !.side = type,
                                   !.result = r.result, !.calc = r.calc]
    /\ UNCHANGED <<pending, static, hist>>
    /\ UNCHANGED mainVars

NextFormat == \E type \in Sides : Import(type)

SpecFormat == InitFormat /\ [][NextFormat]_vars

\* the known keys of data whose value is an array, as positions of potentialKeys
KnownArrayKeys(data) ==
    {n \in DOMAIN potentialKeys : data.t = "obj" /\ isArray(Get(data, potentialKeys[n]))}

\* C13: the import reads the value itself when it is an array; otherwise the
\* array under the first of the known keys, in their fixed order, whose value
\* is an array; otherwise the value of the object's first own property when
\* that is an array; otherwise it fails as an unrecognized format. The side
\* imported makes no difference.
C13_ResolutionOrder ==
    LET data == last.input
        first == CHOOSE n \in KnownArrayKeys(data) : \A m \in KnownArrayKeys(data) : n <= m
    IN  last.op = "import" =>
            IF isArray(data)
            THEN last.result = "ok" /\ Range(state[last.side]) = UsernamesOf(data.v)
            ELSE IF KnownArrayKeys(data) # {}
            THEN /\ last.result = "ok"
                 /\ Range(state[last.side]) = UsernamesOf(Get(data, potentialKeys[first]).v)
            ELSE IF data.t = "obj" /\ data.v # <<>> /\ isArray(data.v[1].val)
            THEN last.result = "ok" /\ Range(state[last.side]) = UsernamesOf(data.v[1].val.v)
            ELSE last.result = "formaterror"

\* no array of records can be located in data: a primitive, null, or an
\* object without a known key that holds an array and whose first property,
\* if it has one, holds no array
Unrecognized(data) ==
    /\ ~isArray(data)
    /\ KnownArrayKeys(data) = {}
    /\ ~(data.t = "obj" /\ data.v # <<>> /\ isArray(data.v[1].val))

\* C14: importing valid JSON in which no array of records can be located
\* fails as an unrecognized format and leaves both sets and
\* state.nonFollowers unchanged.
C14_UnrecognizedChangesNothing ==
    [][(last'.op = "import" /\ Unrecognized(last.input)) =>
          /\ last'.result = "formaterror"
          /\ state'.followers = state.followers
          /\ state'.following = state.following
          /\ state'.nonFollowers = state.nonFollowers]_vars

\* after an analysis, a file whose only property holds a number was imported
C14_Witness ==
    /\ last.op = "import"
    /\ last.side = "following"
    /\ last.input = JObj(<<Prop("data", JNum)>>)
    /\ last.result = "formaterror"
    /\ state.followers = << <<"a">> >>
    /\ state.following = << <<"a">>, <<"b">> >>
    /\ state.nonFollowers = << <<"b">> >>

\* the file is recognized: the array of records located in data by one of
\* the three rules, the first property counting when its name is not empty
Located(data) ==
    IF isArray(data) THEN [ok |-> TRUE, arr |-> data.v]
    ELSE IF KnownArrayKeys(data) # {}
    THEN [ok |-> TRUE,
          arr |-> Get(data, potentialKeys[CHOOSE n \in KnownArrayKeys(data) :
                                             \A m \in KnownArrayKeys(data) : n <= m]).v]
    ELSE IF data.t = "obj" /\ data.v # <<>> /\ data.v[1].k # "" /\ isArray(data.v[1].val)
    THEN [ok |-> TRUE, arr |-> data.v[1].val.v]
    ELSE [ok |-> FALSE, arr |-> <<>>]

\* C15: the import of a recognized file that yields no username succeeds:
\* the side is loaded with an empty set, the analysis runs when both sides
\* are loaded, and it gives the empty list when following is empty and the
\* whole of following when followers is empty.
C15_EmptyFileIsSuccess ==
    (/\ last.op = "import"
     /\ Located(last.input).ok
     /\ UsernamesOf(Located(last.input).arr) = {})
        => /\ last.result = "ok"
           /\ state[last.side] = <<>>
           /\ IF last.side = "followers" THEN state.followersFileLoaded
                                         ELSE state.followingFileLoaded
           /\ (state.followersFileLoaded /\ state.followingFileLoaded) => last.calc
           /\ last.calc =>
                 /\ state.following = <<>> => state.nonFollowers = <<>>
                 /\ state.followers = <<>> =>
                       /\ Range(state.nonFollowers) = Range(state.following)
                       /\ Len(state.nonFollowers) = Len(state.following)

\* after an analysis of followers a and following a, b, an empty array was
\* imported as followers: every followed user is a non-follower
C15_Witness ==
    /\ last.op = "import"
    /\ last.side = "followers"
    /\ last.input = JArr(<<>>)
    /\ last.calc
    /\ state.followers = <<>>
    /\ state.following = << <<"a">>, <<"b">> >>
    /\ state.nonFollowers = << <<"a">>, <<"b">> >>

-----------------------------------------------------------------------------
(* part_001, sorting and searching the analysed list: the specification SpecView *)

\* what is typed into the search box
SearchStrings ==
    { <<>>, <<"a">>, <<"B">>, <<" ", "a", " ">>, <<" ">>, <<"a", "b">> }

\* a file of one record per username of q, in the order of q
FileOf(q) ==
    [k |-> "json", v |-> JArr([i \in DOMAIN q |-> Record(<<Entry(q[i])>>)])]

\* state and page after the sort button was or was not clicked and the files
\* of followers F and following G were imported, which runs the analysis
Imported(F, G, clicked) ==
    CHOOSE r \in
        { handleFileUpload(first.st, first.dm, "following", FileOf(G)) :
            first \in
              { handleFileUpload(start.st, start.dm, "followers", FileOf(F)) :
                  start \in { IF clicked THEN toggleSort(InitState, InitDom)
                              ELSE [st |-> InitState, dm |-> InitDom] } } } :
        TRUE

InitView ==
    /\ \E F \in UsernameSets, G \in UsernameSets, clicked \in BOOLEAN :
          \E r \in {Imported(F, G, clicked)} :
              /\ state = r.st
              /\ dom = r.dm
    /\ pending = <<>>
    /\ static = StaticOff
    /\ last = NoEvent
    /\ hist = NoHistory
    /\ MainOff

\* a click on the sort button; the history keeps the list as it was
ToggleSort ==
    /\ \E r \in {toggleSort(state, dom)} :
          state' = r.st /\ dom' = r.dm
    /\ last' = [NoEvent EXCEPT !.op = "toggleSort", !.input = state.nonFollowers]
    /\ UNCHANGED <<pending, static, hist>>
    /\ UNCHANGED mainVars

\* a key stroke in the search box: the debounced handler clears its timer and
\* sets it anew
TypeSearch(str) ==
    /\ dom' = [dom EXCEPT !.searchInput = str]
    /\ pending' = << [type |-> "search", superseded |-> FALSE] >>
    /\ last' = [NoEvent EXCEPT !.op = "type"]
    /\ UNCHANGED <<state, static, hist>>
    /\ UNCHANGED mainVars

\* the debounce timer fires: handleSearchInput
HandleSearchInput ==
    /\ pending # <<>>
    /\ pending' = <<>>
    /\ dom' = renderResults(state, dom)
    /\ last' = [NoEvent EXCEPT !.op = "search"]
    /\ UNCHANGED <<state, static, hist>>
    /\ UNCHANGED mainVars

\* the file a side was imported from is selected and read again
Reimport(type) ==
    /\ \E r \in {handleFileUpload(state, [dom EXCEPT !.jsonLoader = TRUE], type,
                                  FileOf(state[type]))} :
           /\ state' = r.st
           /\ dom' = r.dm
           /\ last' = [NoEvent EXCEPT !.op = "reimport", !.side = type,
                                      !.result = r.result, !.calc = r.calc]
    /\ UNCHANGED <<pending, static, hist>>
    /\ UNCHANGED mainVars

\* a file that is not JSON is selected for a side and read
BadImport(type) ==
    /\ \E r \in {handleFileUpload(state, [dom EXCEPT !.jsonLoader = TRUE], type,
                                  [k |-> "badjson", v |-> JNull])} :
           /\ state' = r.st
           /\ dom' = r.dm
           /\ last' = [NoEvent EXCEPT !.op = "badimport", !.side = type,
                                      !.result = r.result, !.calc = r.calc]
    /\ UNCHANGED <<pending, static, hist>>
    /\ UNCHANGED mainVars

NextView ==
    \/ ToggleSort
    \/ \E str \in SearchStrings : TypeSearch(str)
    \/ HandleSearchInput
    \/ \E type \in Sides : Reimport(type)
    \/ \E type \in Sides : BadImport(type)

SpecView == InitView /\ [][NextView]_vars

Reverse(q) == [i \in DOMAIN q |-> q[Len(q) + 1 - i]]

\* C16: in every state of part_001 state.nonFollowers is sorted according to
\* state.sortAsc: no element is followed by one that localeCompare puts
\* before it when the flag is true, or after it when the flag is false.
C16_SortedPerFlag ==
    \A i, j \in DOMAIN state.nonFollowers :
        i < j => IF state.sortAsc
                 THEN localeCompare(state.nonFollowers[i], state.nonFollowers[j]) <= 0
                 ELSE localeCompare(state.nonFollowers[i], state.nonFollowers[j]) >= 0

\* three non-followers in descending order after a click and a re-import
C16_Witness ==
    /\ last.op = "reimport"
    /\ last.calc
    /\ ~state.sortAsc
    /\ state.nonFollowers = << <<"b">>, <<"a", "b">>, <<"a">> >>

\* C17: one toggleSort turns a list of at least two non-followers into its
\* reverse, a second one in a row restores the list the first one found, and
\* toggleSort changes neither the usernames of the list nor the two sets.
C17_ToggleReverses ==
    [][last'.op = "toggleSort" =>
          /\ Len(state.nonFollowers) >= 2 =>
                state'.nonFollowers = Reverse(state.nonFollowers)
          /\ (last.op = "toggleSort" /\ Len(state.nonFollowers) >= 2) =>
                state'.nonFollowers = last.input
          /\ Range(state'.nonFollowers) = Range(state.nonFollowers)
          /\ Len(state'.nonFollowers) = Len(state.nonFollowers)
          /\ state'.followers = state.followers
          /\ state'.following = state.following]_vars

\* toggleSort has turned the list a, ab, b into b, ab, a
C17_Witness ==
    /\ last.op = "toggleSort"
    /\ last.input = << <<"a">>, <<"a", "b">>, <<"b">> >>
    /\ state.nonFollowers = << <<"b">>, <<"a", "b">>, <<"a">> >>

\* the list #users-list shows
Displayed == IF dom.container.kind = "list" THEN dom.container.users ELSE <<>>

\* the elements of q that contain term, letter case apart, in the order of q
Containing(q, term) ==
    SelectSeq(q, LAMBDA u : includes(toLowerCase(u), toLowerCase(term)))

\* C18 as stated: after renderResults has rendered the list for the string s
\* of the search box, the list displayed is exactly the subsequence of
\* state.nonFollowers of the usernames that contain s, letter case apart.
C18_FilterBySearchString ==
    (/\ last.op = "search"
     /\ state.followersFileLoaded /\ state.followingFileLoaded)
        => Displayed = Containing(state.nonFollowers, dom.searchInput)

\* C18 amended: ... that contain s with its leading and trailing white space
\* removed, letter case apart.
C18_FilterByTrimmedSearchString ==
    (/\ last.op = "search"
     /\ state.followersFileLoaded /\ state.followingFileLoaded)
        => Displayed = Containing(state.nonFollowers, trim(dom.searchInput))

\* B was typed: of the non-followers a, ab, b the list shows ab, b
C18_Witness ==
    /\ last.op = "search"
    /\ state.followersFileLoaded /\ state.followingFileLoaded
    /\ dom.searchInput = <<"B">>
    /\ state.nonFollowers = << <<"a">>, <<"a", "b">>, <<"b">> >>
    /\ Displayed = << <<"a", "b">>, <<"b">> >>

\* C20: a run of calculateNonFollowers on the sets and the sort flag that the
\* list was computed and sorted from leaves state.nonFollowers the same
\* sequence of the same usernames.
C20_RecomputeIdempotent ==
    [][(last'.op = "reimport" /\ last'.calc
        /\ state.followersFileLoaded /\ state.followingFileLoaded) =>
          state'.nonFollowers = state.nonFollowers]_vars

\* the analysis has run again on a list of three non-followers
C20_Witness ==
    /\ last.op = "reimport"
    /\ last.calc
    /\ state.sortAsc
    /\ state.nonFollowers = << <<"a">>, <<"a", "b">>, <<"b">> >>

-----------------------------------------------------------------------------
(* part_000, sorting and searching the analysed list: the specification SpecView0 *)

\* part_000: the flag is flipped and the list rendered; state.nonFollowers is
\* left as it is
toggleSort0(s, d) ==
    LET s1 == [s EXCEPT !.sortAsc = ~s.sortAsc]
    IN  [st |-> s1, dm |-> renderResults0(s1, d)]

\* state and page of part_000 after the static load has failed, the sort
\* button was or was not clicked, and the files of followers F and following
\* G were uploaded
Imported0(F, G, clicked) ==
    CHOOSE r \in
        { handleFileUpload0(shown2.st, shown2.dm, "following", FileOf(G)) :
            shown2 \in
              { showLoader0(first.st, first.dm) :
                  first \in
                    { handleFileUpload0(shown1.st, shown1.dm, "followers", FileOf(F)) :
                        shown1 \in
                          { showLoader0(start.st, start.dm) :
                              start \in
                                { IF clicked THEN toggleSort0(failed.st, failed.dm)
                                  ELSE failed :
                                    failed \in
                                      { staticFailed([InitState0 EXCEPT
                                                       !.isDataProcessing = TRUE],
                                                     InitDom0) } } } } } } :
        TRUE

InitView0 ==
    /\ \E F \in UsernameSets, G \in UsernameSets, clicked \in BOOLEAN :
          \E r \in {Imported0(F, G, clicked)} :
              /\ state = r.st
              /\ dom = r.dm
    /\ pending = <<>>
    /\ static = [phase |-> "failed", data |-> <<>>, index |-> 0]
    /\ last = NoEvent
    /\ hist = NoHistory
    /\ MainOff

\* a click on the sort button of part_000
ToggleSort0 ==
    /\ \E r \in {toggleSort0(state, dom)} :
          state' = r.st /\ dom' = r.dm
    /\ last' = [NoEvent EXCEPT !.op = "toggleSort", !.input = state.nonFollowers]
    /\ UNCHANGED <<pending, static, hist>>
    /\ UNCHANGED mainVars

\* the debounce timer of part_000 fires: renderResults
HandleSearchInput0 ==
    /\ pending # <<>>
    /\ pending' = <<>>
    /\ dom' = renderResults0(state, dom)
    /\ last' = [NoEvent EXCEPT !.op = "search"]
    /\ UNCHANGED <<state, static, hist>>
    /\ UNCHANGED mainVars

NextView0 ==
    \/ ToggleSort0
    \/ \E str \in SearchStrings : TypeSearch(str)
    \/ HandleSearchInput0

SpecView0 == InitView0 /\ [][NextView0]_vars

\* C19: renderResults, run for the search box, leaves state.nonFollowers,
\* state.followers, state.following and state.sortAsc as they are, and with
\* an empty search box the list it shows is state.nonFollowers, element by
\* element in its order.
C19_FilteringReadOnly ==
    [][last'.op = "search" =>
          /\ state'.nonFollowers = state.nonFollowers
          /\ state'.followers = state.followers
          /\ state'.following = state.following
          /\ state'.sortAsc = state.sortAsc
          /\ dom'.searchInput = <<>> => dom'.container.users = state'.nonFollowers]_vars

-----------------------------------------------------------------------------
(* Statistics of part_001, under Spec *)

\* C21: between two event handlers of part_001 the three numbers of the
\* statistics panel are the sizes of state.followers, state.following and
\* state.nonFollowers.
C21_StatisticsProjectState ==
    dom.stats = [followers |-> Len(state.followers),
                 following |-> Len(state.following),
                 nonFollowers |-> Len(state.nonFollowers)]

-----------------------------------------------------------------------------
(* part_001, the export of the list: the specification SpecExport *)

\* Array.prototype.join
RECURSIVE join(_, _)
join(q, sep) ==
    IF q = <<>> THEN <<>>
    ELSE IF Len(q) = 1 THEN q[1]
    ELSE q[1] \o sep \o join(Tail(q), sep)

\* String.prototype.split on a separator of one character
RECURSIVE split(_, _)
split(str, sep) ==
    IF \A i \in DOMAIN str : str[i] # sep THEN <<str>>
    ELSE LET i == CHOOSE k \in DOMAIN str :
                      str[k] = sep /\ \A j \in 1..(k - 1) : str[j] # sep
         IN  <<SubSeq(str, 1, i - 1)>> \o split(SubSeq(str, i + 1, Len(str)), sep)

\* JSON.stringify of a string: quotes, with " and \ escaped
quote(str) ==
    <<"\"">>
    \o join([i \in DOMAIN str |->
                IF str[i] \in {"\"", "\\"} THEN <<"\\", str[i]>> ELSE <<str[i]>>], <<>>)
    \o <<"\"">>

\* JSON.stringify(value, null, 2) of an array of strings that starts at the
\* indentation indent
stringifyStrings(strs, indent) ==
    IF strs = <<>> THEN <<"[", "]">>
    ELSE <<"[", "\n">>
         \o join([i \in DOMAIN strs |-> indent \o <<" ", " ">> \o quote(strs[i])],
                 <<",", "\n">>)
         \o <<"\n">> \o indent \o <<"]">>

\* JSON.stringify({ key: strs }, null, 2)
stringifyWrapped(key, strs) ==
    <<"{", "\n", " ", " ">> \o quote(key) \o <<":", " ">>
    \o stringifyStrings(strs, <<" ", " ">>) \o <<"\n", "}">>

nonFollowersKey == <<"n", "o", "n", "F", "o", "l", "l", "o", "w", "e", "r", "s">>

csvHeader == <<"U", "s", "e", "r", "n", "a", "m", "e">>

ExportFormats == {"txt", "csv", "json"}

\* the lines of the preview before an ellipsis replaces the rest
maxPreviewLines == 10

\* the '@' is put in front of every username although the box is ticked
generateExportContent_alwaysAt(s, d) ==
    LET usersToExport == [i \in DOMAIN s.nonFollowers |-> <<"@">> \o s.nonFollowers[i]]
    IN  CASE d.exportFormat = "csv" -> csvHeader \o <<"\n">> \o join(usersToExport, <<"\n">>)
          [] d.exportFormat = "json" -> stringifyWrapped(nonFollowersKey, usersToExport)
          [] OTHER -> join(usersToExport, <<"\n">>)

generateExportContent(s, d) ==
    LET usersToExport == [i \in DOMAIN s.nonFollowers |->
                             IF d.cleanUsernames THEN s.nonFollowers[i]
                             ELSE <<"@">> \o s.nonFollowers[i]]
    IN  CASE d.exportFormat = "csv" -> csvHeader \o <<"\n">> \o join(usersToExport, <<"\n">>)
          [] d.exportFormat = "json" -> stringifyWrapped(nonFollowersKey, usersToExport)
          [] OTHER -> join(usersToExport, <<"\n">>)

updateExportPreview(s, d) ==
    IF d.exportModal = "none" THEN d
    ELSE LET previewLines == split(generateExportContent(s, d), "\n")
         IN  [d EXCEPT !.exportPreview =
                 IF Len(previewLines) > maxPreviewLines
                 THEN join(SubSeq(previewLines, 1, maxPreviewLines), <<"\n">>)
                      \o <<"\n", ".", ".", ".">>
                 ELSE generateExportContent(s, d)]

showExportModal(s, d) ==
    IF Len(s.nonFollowers) = 0 THEN d
    ELSE [updateExportPreview(s, d) EXCEPT !.exportModal = "block"]

hideExportModal(d) == [d EXCEPT !.exportModal = "none"]

\* the page after the click, and the file handed to the browser
performExport(s, d) ==
    [dm |-> hideExportModal(d),
     download |-> [format |-> d.exportFormat, content |-> generateExportContent(s, d)]]

\* part_000: the page after the click, and the file handed to the browser, if
\* any
performExport0(s, d) ==
    LET usersToExport == [i \in DOMAIN s.nonFollowers |->
                             IF d.cleanUsernames THEN s.nonFollowers[i]
                             ELSE <<"@">> \o s.nonFollowers[i]]
        fileContent ==
            CASE d.exportFormat = "txt" -> join(usersToExport, <<"\n">>)
              [] d.exportFormat = "csv" -> csvHeader \o <<"\n">> \o join(usersToExport, <<"\n">>)
              [] d.exportFormat = "json" -> stringifyStrings(usersToExport, <<>>)
    IN  IF Len(usersToExport) = 0 \/ d.exportFormat \notin ExportFormats
        THEN [dm |-> d, made |-> FALSE, download |-> "none"]
        ELSE [dm |-> [d EXCEPT !.exportModal = "none"], made |-> TRUE,
              download |-> [format |-> d.exportFormat, content |-> fileContent]]

\* the export modal of index.html: no inline display, first format selected,
\* box not ticked, the text of the pre element
ModalDom ==
    [exportModal |-> "", exportFormat |-> "txt", cleanUsernames |-> FALSE,
     exportPreview |-> <<"[Preview will appear here]">>]

\* the analysis has run on a following file and a followers file without
\* usernames
InitExport ==
    /\ \E G \in UsernameSets, clicked \in BOOLEAN :
          \E r \in {Imported(<<>>, G, clicked)} :
              /\ state = r.st
              /\ dom = r.dm @@ ModalDom
    /\ pending = <<>>
    /\ static = StaticOff
    /\ last = NoEvent
    /\ hist = NoHistory
    /\ MainOff

\* a click on the export button of the page
ShowExportModal ==
    /\ dom.exportModal # "block"
    /\ dom' = showExportModal(state, dom)
    /\ last' = [NoEvent EXCEPT !.op = "showExportModal"]
    /\ UNCHANGED <<state, pending, static, hist>>
    /\ UNCHANGED mainVars

\* a click on the close button of the modal
HideExportModal ==
    /\ dom.exportModal = "block"
    /\ dom' = hideExportModal(dom)
    /\ last' = [NoEvent EXCEPT !.op = "hideExportModal"]
    /\ UNCHANGED <<state, pending, static, hist>>
    /\ UNCHANGED mainVars

\* another format is selected in the modal
SelectFormat(format) ==
    /\ dom.exportModal = "block"
    /\ dom.exportFormat # format
    /\ dom' = updateExportPreview(state, [dom EXCEPT !.exportFormat = format])
    /\ last' = [NoEvent EXCEPT !.op = "selectFormat"]
    /\ UNCHANGED <<state, pending, static, hist>>
    /\ UNCHANGED mainVars

\* the box 'Remove @' of the modal is ticked or cleared
TickClean ==
    /\ dom.exportModal = "block"
    /\ dom' = updateExportPreview(state, [dom EXCEPT !.cleanUsernames = ~@])
    /\ last' = [NoEvent EXCEPT !.op = "tickClean"]
    /\ UNCHANGED <<state, pending, static, hist>>
    /\ UNCHANGED mainVars

\* a click on the button 'Confirm Export' of the modal; the history keeps the
\* download
PerformExport ==
    /\ dom.exportModal = "block"
    /\ \E r \in {performExport(state, dom)} :
          /\ dom' = r.dm
          /\ last' = [NoEvent EXCEPT !.op = "performExport", !.result = "download",
                                     !.input = r.download]
    /\ UNCHANGED <<state, pending, static, hist>>
    /\ UNCHANGED mainVars

\* performExport of part_000 on the same list and the same options
PerformExport0 ==
    /\ dom.exportModal = "block"
    /\ \E r \in {performExport0(state, dom)} :
          /\ dom' = r.dm
          /\ last' = [NoEvent EXCEPT !.op = "performExport0",
                                     !.result = IF r.made THEN "download" ELSE "none",
                                     !.input = r.download]
    /\ UNCHANGED <<state, pending, static, hist>>
    /\ UNCHANGED mainVars

\* the read of a followers file selected earlier finishes, whether the modal
\* is open or not; the file holds no usernames, or those of state.following
FollowersRead(F) ==
    /\ \E r \in {handleFileUpload(state, [dom EXCEPT !.jsonLoader = TRUE],
                                  "followers", FileOf(F))} :
          /\ state' = r.st
          /\ dom' = r.dm
          /\ last' = [NoEvent EXCEPT !.op = "read", !.side = "followers",
                                     !.result = r.result, !.calc = r.calc]
    /\ UNCHANGED <<pending, static, hist>>
    /\ UNCHANGED mainVars

\* a click on the sort button while the modal does not cover the page
ToggleSortExport ==
    /\ dom.exportModal # "block"
    /\ \E r \in {toggleSort(state, dom)} :
          state' = r.st /\ dom' = r.dm
    /\ last' = [NoEvent EXCEPT !.op = "toggleSort"]
    /\ UNCHANGED <<pending, static, hist>>
    /\ UNCHANGED mainVars

NextExport ==
    \/ ShowExportModal
    \/ HideExportModal
    \/ \E format \in ExportFormats : SelectFormat(format)
    \/ TickClean
    \/ PerformExport
    \/ PerformExport0
    \/ \E F \in {<<>>, state.following} : FollowersRead(F)
    \/ ToggleSortExport

SpecExport == InitExport /\ [][NextExport]_vars

\* the strings an export is to list: the usernames of the list in its order,
\* with '@' in front unless the box is ticked
ExportedNames ==
    [i \in DOMAIN state.nonFollowers |->
        IF dom.cleanUsernames THEN state.nonFollowers[i]
        ELSE <<"@">> \o state.nonFollowers[i]]

\* the lines of a text; the empty text has none
LinesOf(text) == IF text = <<>> THEN <<>> ELSE split(text, "\n")

\* text is the line Username, a line break, and the lines of ExportedNames
IsCsvOfNames(text) ==
    /\ Len(text) > Len(csvHeader)
    /\ SubSeq(text, 1, Len(csvHeader) + 1) = csvHeader \o <<"\n">>
    /\ LinesOf(SubSeq(text, Len(csvHeader) + 2, Len(text))) = ExportedNames

\* C22 as stated: a file exported by either version lists the usernames of
\* the list once each in its order, with '@' unless strip-@ is on: as lines
\* for text, as lines after the line Username for CSV, and as the JSON array
\* of those strings for JSON.
C22_ExportListsUsernames ==
    (last.op \in {"performExport", "performExport0"} /\ last.result = "download") =>
        CASE last.input.format = "txt" -> LinesOf(last.input.content) = ExportedNames
          [] last.input.format = "csv" -> IsCsvOfNames(last.input.content)
          [] last.input.format = "json" ->
                last.input.content = stringifyStrings(ExportedNames, <<>>)

\* C22 amended: ... and for JSON as the array of those strings in part_000
\* and as the object with the one property nonFollowers holding that array
\* in part_001, pretty-printed.
C22_ExportListsUsernamesJsonWrapped ==
    (last.op \in {"performExport", "performExport0"} /\ last.result = "download") =>
        CASE last.input.format = "txt" -> LinesOf(last.input.content) = ExportedNames
          [] last.input.format = "csv" -> IsCsvOfNames(last.input.content)
          [] last.input.format = "json" ->
                last.input.content =
                    IF last.op = "performExport0"
                    THEN stringifyStrings(ExportedNames, <<>>)
                    ELSE stringifyWrapped(nonFollowersKey, ExportedNames)

\* part_001 has exported the descending list b, ab, a as CSV without '@'
C22_Witness ==
    /\ last.op = "performExport"
    /\ state.nonFollowers = << <<"b">>, <<"a", "b">>, <<"a">> >>
    /\ dom.cleanUsernames
    /\ last.input.format = "csv"
    /\ last.input.content = csvHeader \o <<"\n", "b", "\n", "a", "b", "\n", "a">>

-----------------------------------------------------------------------------
(* part_001, imports after failed imports: the specification SpecRetry *)

\* files that fail in each of the ways an import can fail, and files that
\* import well
RetryFiles ==
    { [k |-> "readerror", v |-> JNull],
      [k |-> "badjson", v |-> JNull],
      \* no array is found
      [k |-> "json", v |-> JNum],
      \* a value that is not a string, after an entry that is well formed
      [k |-> "json",
       v |-> JArr(<<RecordB, Record(<<Entry(<<"a">>), JObj(<<Prop("value", JNum)>>)>>)>>)],
      [k |-> "json", v |-> JArr(<<>>)],
      [k |-> "json", v |-> JArr(<<RecordA>>)],
      [k |-> "json", v |-> JArr(<<RecordB, RecordA>>)],
      [k |-> "json", v |-> JObj(<<Prop("relationships_following", JArr(<<RecordB>>))>>)] }

\* failed: an import has failed; since: the sides imported successfully
\* after the last failed import
NoRetryHistory == [failed |-> FALSE, since |-> {}]

InitRetry ==
    /\ state = InitState
    /\ dom = InitDom
    /\ pending = <<>>
    /\ static = StaticOff
    /\ last = NoEvent
    /\ hist = NoRetryHistory
    /\ MainOff

\* a file is selected for a side and read: handleFileUpload
ImportFile(type, file) ==
    /\ \E r \in {handleFileUpload(state, [dom EXCEPT !.jsonLoader = TRUE], type, file)} :
          /\ state' = r.st
          /\ dom' = r.dm
          /\ last' = [NoEvent EXCEPT !.op = "read", !.side = type, !.input = file.k,
                                     !.result = r.result, !.calc = r.calc]
          /\ hist' = IF r.result = "ok"
                     THEN [hist EXCEPT !.since = @ \cup {type}]
                     ELSE [failed |-> TRUE, since |-> {}]
    /\ UNCHANGED <<pending, static>>
    /\ UNCHANGED mainVars

NextRetry == \E type \in Sides, file \in RetryFiles : ImportFile(type, file)

SpecRetry == InitRetry /\ [][NextRetry]_vars

\* C23: once each side has been imported successfully after the last failed
\* import, both sides are marked loaded and state.nonFollowers holds the
\* usernames of state.following that are not in state.followers.
C23_RetryRecovers ==
    hist.since = Sides =>
        /\ state.followersFileLoaded /\ state.followingFileLoaded
        /\ ~state.isDataProcessing
        /\ Range(state.nonFollowers) = Range(state.following) \ Range(state.followers)
        /\ NoDup(state.nonFollowers)

\* after a failed import both sides were imported again, and b does not
\* follow back
C23_Witness ==
    /\ hist.failed
    /\ hist.since = Sides
    /\ state.followers = << <<"a">> >>
    /\ state.nonFollowers = << <<"b">> >>

-----------------------------------------------------------------------------
(* part_001, the list after the analysis, under Spec *)

\* C24: when the import that makes both sides loaded has ended and the
\* analysis has run, the list on the page is state.nonFollowers filtered by
\* the content of the search box.
C24_ListShownAfterAnalysis ==
    (last.op = "read" /\ last.calc) =>
        Displayed = Containing(state.nonFollowers, trim(dom.searchInput))

-----------------------------------------------------------------------------
(* part_000, the loading indicator after an upload, under Spec0 *)

\* C25: when handleFileUpload of part_000 has ended, #users-list holds no
\* loading indicator and state.isDataProcessing is false, however the import
\* ended.
C25_LoaderClearedAfterUpload ==
    last.op = "read" => ~dom.container.loader /\ ~state.isDataProcessing

-----------------------------------------------------------------------------
(* part_000, the two static loads of initializeApp: the specification
   SpecStatic *)

\* loadStaticJsonData up to its first await: the call returns at once while
\* state.isDataProcessing is set, and sets it otherwise
loadStaticJsonData(s) ==
    IF s.isDataProcessing THEN [st |-> s, started |-> FALSE]
    ELSE [st |-> [s EXCEPT !.isDataProcessing = TRUE], started |-> TRUE]

\* the two files the server serves are drawn at the start
InitStatic ==
    /\ state = InitState0
    /\ dom = InitDom0
    /\ pending = <<>>
    /\ static = [phase |-> "init", started |-> {}]
    /\ \E f \in StaticFiles, g \in StaticFiles :
          last = [NoEvent EXCEPT !.input = [followers |-> f, following |-> g]]
    /\ hist = NoHistory
    /\ MainOff

\* initializeApp up to its await of Promise.all: showLoader, then the two
\* calls of loadStaticJsonData, each up to its first await
StartStatic ==
    /\ static.phase = "init"
    /\ \E shown \in {showLoader0(state, dom)} :
       \E first \in {loadStaticJsonData(shown.st)} :
       \E second \in {loadStaticJsonData(first.st)} :
          /\ state' = second.st
          /\ dom' = shown.dm
          /\ static' = [phase |-> "loading",
                        started |-> {side \in Sides :
                                        \/ side = "followers" /\ first.started
                                        \/ side = "following" /\ second.started}]
    /\ last' = [last EXCEPT !.op = "initializeApp"]
    /\ UNCHANGED <<pending, hist>>
    /\ UNCHANGED mainVars

\* the fetch of a call that has started settles: the rest of
\* loadStaticJsonData, and the rest of initializeApp when Promise.all settles
StaticSettled(side) ==
    /\ static.phase = "loading"
    /\ side \in static.started
    /\ LET file == last.input[side]
           extracted == IF file.k # "json" \/ Nullish(file.v)
                        THEN [ok |-> FALSE, arr |-> <<>>]
                        ELSE dataArrayOf(file.v)
           s1 == [state EXCEPT ![side] = processBatch(@, extracted.arr, 0,
                                                      Len(extracted.arr))]
       IN  IF ~extracted.ok
           THEN \E r \in {staticFailed(state, dom)} :
                   /\ state' = r.st
                   /\ dom' = r.dm
                   /\ static' = [phase |-> "failed", started |-> {}]
                   /\ last' = [last EXCEPT !.op = "static", !.result = "failed"]
           ELSE IF static.started # {side}
           THEN /\ state' = [s1 EXCEPT !.isDataProcessing = FALSE]
                /\ dom' = dom
                /\ static' = [static EXCEPT !.started = @ \ {side}]
                /\ last' = [last EXCEPT !.op = "static", !.result = "one"]
           ELSE \E r \in {staticLoaded(s1, dom)} :
                   /\ state' = r.st
                   /\ dom' = r.dm
                   /\ static' = [phase |-> "done", started |-> {}]
                   /\ last' = [last EXCEPT !.op = "static", !.result = "ok",
                                           !.calc = r.calc]
    /\ UNCHANGED <<pending, hist>>
    /\ UNCHANGED mainVars

NextStatic ==
    \/ StartStatic
    \/ \E side \in Sides : StaticSettled(side)

SpecStatic == InitStatic /\ [][NextStatic]_vars

\* the file is an array of well-formed relationship records
ValidRecordArray(file) ==
    /\ file.k = "json"
    /\ isArray(file.v)
    /\ \A i \in DOMAIN file.v.v : file.v.v[i] \in {RecordA, RecordB}

\* C26: when the two static files are arrays of well-formed records and the
\* static load of initializeApp has ended, state.followers and
\* state.following hold the usernames of their files and state.nonFollowers
\* those of state.following that are not in state.followers.
C26_BothStaticFilesLoaded ==
    (/\ static.phase = "done"
     /\ ValidRecordArray(last.input.followers)
     /\ ValidRecordArray(last.input.following)) =>
        /\ Range(state.followers) = UsernamesOf(last.input.followers.v.v)
        /\ Range(state.following) = UsernamesOf(last.input.following.v.v)
        /\ Range(state.nonFollowers) = Range(state.following) \ Range(state.followers)

-----------------------------------------------------------------------------
(* part_000, processInBatches: the specification SpecBatches *)

\* the longest array handed to processInBatches
MaxItems == 4

\* arrays of records the processor accepts and of null, on which it throws
BatchArrays == SeqsUpTo({RecordA, RecordB, JNull}, MaxItems)

\* the first slice runs to the end of the array
sliceEnd_whole(index, totalItems) == totalItems

\* Math.min(index + CONFIG.batchSize, totalItems)
sliceEnd(index, totalItems) == Min(index + batchSize, totalItems)

\* the indexes (counted from 0) the for loop of one slice hands to the
\* processor, in the order of the calls; what a call throws is caught
callsOfSlice(data, index, end) ==
    [k \in 1..(end - index) |-> index + k - 1]

\* calls: the indexes handed to the processor so far; slices: the number of
\* calls of each slice so far; resolved: how often resolve was called;
\* index: the index variable of processInBatches
NoBatches == [phase |-> "init", index |-> 0, calls |-> <<>>, slices |-> <<>>, resolved |-> 0]

\* one run of processBatch from the index reached: the calls of the slice,
\* then setTimeout or resolve
processBatchSlice(st, s, data) ==
    LET end == sliceEnd(st.index, Len(data))
        made == callsOfSlice(data, st.index, end)
        reached == IF made = <<>> THEN st.index ELSE made[Len(made)] + 1
        more == reached < Len(data)
    IN  [batches |-> [phase |-> IF more THEN "yielded" ELSE "resolved",
                      index |-> reached,
                      calls |-> st.calls \o made,
                      slices |-> Append(st.slices, Len(made)),
                      resolved |-> IF more THEN st.resolved ELSE st.resolved + 1],
         st |-> [s EXCEPT !.followers =
                    IF made = <<>> THEN @
                    ELSE processBatch(@, data, made[1], made[Len(made)] + 1)]]

InitBatches ==
    /\ state = InitState0
    /\ dom = InitDom0
    /\ pending = <<>>
    /\ static = NoBatches
    /\ \E data \in BatchArrays : last = [NoEvent EXCEPT !.input = data]
    /\ hist = NoHistory
    /\ MainOff

\* processInBatches(data, processFollowerData) is called: the first slice
StartBatches ==
    /\ static.phase = "init"
    /\ \E r \in {processBatchSlice(static, state, last.input)} :
          /\ static' = r.batches
          /\ state' = r.st
    /\ last' = [last EXCEPT !.op = "processInBatches"]
    /\ UNCHANGED <<dom, pending, hist>>
    /\ UNCHANGED mainVars

\* the timer set by the previous slice fires: the next slice
BatchTimer ==
    /\ static.phase = "yielded"
    /\ \E r \in {processBatchSlice(static, state, last.input)} :
          /\ static' = r.batches
          /\ state' = r.st
    /\ last' = [last EXCEPT !.op = "processBatch"]
    /\ UNCHANGED <<dom, pending, hist>>
    /\ UNCHANGED mainVars

NextBatches ==
    \/ StartBatches
    \/ BatchTimer

SpecBatches == InitBatches /\ [][NextBatches]_vars

\* C27: the processor is called on the indexes 0, 1, 2, ... in this order,
\* each once; no slice makes more than batchSize calls, and only the slice of
\* an empty array makes none; the promise is resolved at most once, and when
\* it is resolved every index below the length of the array has been
\* processed, the items after one on which the processor throws included, and
\* the usernames of all well-formed records are in the set.
C27_BatchesCoverEveryItem ==
    /\ \A i \in DOMAIN static.calls : static.calls[i] = i - 1
    /\ Len(static.calls) <= Len(last.input)
    /\ \A k \in DOMAIN static.slices :
          /\ static.slices[k] <= batchSize
          /\ static.slices[k] = 0 => Len(last.input) = 0
    /\ static.resolved <= 1
    /\ static.resolved = 1 <=> static.phase = "resolved"
    /\ static.phase = "resolved" =>
          /\ Len(static.calls) = Len(last.input)
          /\ Range(state.followers) = UsernamesOf(last.input)
    /\ static.phase = "yielded" => Len(static.calls) < Len(last.input)

\* the promise is resolved for an array of MaxItems items whose second item
\* is null
C27_Witness ==
    /\ static.phase = "resolved"
    /\ Len(last.input) = MaxItems
    /\ last.input[2] = JNull
    /\ last.input[MaxItems] = RecordB
    /\ Len(static.slices) > 1

-----------------------------------------------------------------------------
(* part_000, sorting and exporting: the specification SpecExport0 *)

\* the users of the preview of part_000
previewUsers == 5

updateExportPreview0(s, d) ==
    LET shown == SubSeq(s.nonFollowers, 1, Min(previewUsers, Len(s.nonFollowers)))
        processedUsers == [i \in DOMAIN shown |->
                              IF d.cleanUsernames THEN shown[i] ELSE <<"@">> \o shown[i]]
    IN  [d EXCEPT !.exportPreview =
            IF shown = <<>> THEN <<"[No non-followers to preview]">>
            ELSE CASE d.exportFormat = "txt" -> join(processedUsers, <<"\n">>)
                   [] d.exportFormat = "csv" ->
                         csvHeader \o <<"\n">> \o join(processedUsers, <<"\n">>)
                   [] d.exportFormat = "json" -> stringifyStrings(processedUsers, <<>>)
                   [] OTHER -> <<"[Invalid format selected]">>]

showExportModal0(s, d) ==
    IF Len(s.nonFollowers) = 0 THEN d
    ELSE updateExportPreview0(s, [d EXCEPT !.exportModal = "block"])

InitExport0 ==
    /\ \E F \in UsernameSets, G \in UsernameSets, clicked \in BOOLEAN :
          \E r \in {Imported0(F, G, clicked)} :
              /\ state = r.st
              /\ dom = r.dm @@ ModalDom
    /\ pending = <<>>
    /\ static = [phase |-> "failed", data |-> <<>>, index |-> 0]
    /\ last = NoEvent
    /\ hist = NoHistory
    /\ MainOff

\* a click on the export button of the page
ShowExportModal0 ==
    /\ dom.exportModal # "block"
    /\ dom' = showExportModal0(state, dom)
    /\ last' = [NoEvent EXCEPT !.op = "showExportModal"]
    /\ UNCHANGED <<state, pending, static, hist>>
    /\ UNCHANGED mainVars

\* another format is selected in the modal
SelectFormat0(format) ==
    /\ dom.exportModal = "block"
    /\ dom.exportFormat # format
    /\ dom' = updateExportPreview0(state, [dom EXCEPT !.exportFormat = format])
    /\ last' = [NoEvent EXCEPT !.op = "selectFormat"]
    /\ UNCHANGED <<state, pending, static, hist>>
    /\ UNCHANGED mainVars

NextExport0 ==
    \/ ToggleSort0
    \/ ShowExportModal0
    \/ \E format \in ExportFormats : SelectFormat0(format)
    \/ HideExportModal
    \/ PerformExport0

SpecExport0 == InitExport0 /\ [][NextExport0]_vars

\* C28: in part_000 state.nonFollowers is ordered in the direction of
\* state.sortAsc after every toggleSort, and a text file exported after any
\* number of toggles lists the usernames in the order of the list on the
\* page.
C28_ToggleResortsCanonicalList ==
    /\ last.op = "toggleSort" =>
          \A i, j \in DOMAIN state.nonFollowers :
              i < j => compareFn0(state.nonFollowers[i], state.nonFollowers[j],
                                  state.sortAsc) <= 0
    /\ (/\ last.op = "performExport0"
        /\ last.result = "download"
        /\ last.input.format = "txt"
        /\ dom.searchInput = <<>>) =>
          LinesOf(last.input.content) =
              [i \in DOMAIN dom.container.users |->
                  IF dom.cleanUsernames THEN dom.container.users[i]
                  ELSE <<"@">> \o dom.container.users[i]]

-----------------------------------------------------------------------------
(* part_001, exporting an empty list, under SpecExport *)

\* C29: whenever performExport of part_001 has handed a file to the browser,
\* state.nonFollowers is not empty.
C29_NoExportOfEmptyList ==
    (last.op = "performExport" /\ last.result = "download") =>
        Len(state.nonFollowers) > 0

-----------------------------------------------------------------------------
(* debounce, as the search box uses it: the specifications SpecDebounce and
   SpecDebounceFair *)

\* the calls of the debounced function in one behaviour
MaxCalls == 3

\* CONFIG.debounceTime, counted in ticks of the clock
debounceTicks == 2

\* what is typed into the search box
TypedStrings == { <<>>, <<"a">>, <<" ", "B">> }

\* the closure of debounce: timeout holds the id setTimeout returned last (0
\* before the first call); the history keeps the arguments of the calls, the
\* ticks since the last call, and for each run of the wrapped function the
\* call whose timer ran it, the number of calls made by then and the ticks
\* the timer has waited
NoDebounce == [timeout |-> 0, calls |-> <<>>, sinceCall |-> 0, runs |-> <<>>]

\* clearTimeout(id) on the timers that are set
clearTimeout(timers, id) == SelectSeq(timers, LAMBDA t : t.id # id)

\* the timer of an earlier call is left running
executedFunction_noClear(db, timers, args) ==
    LET id == Len(db.calls) + 1
    IN  [db |-> [db EXCEPT !.timeout = id, !.calls = Append(@, args), !.sinceCall = 0],
         timers |-> Append(timers, [id |-> id, waited |-> 0])]

\* a call of the debounced function: clearTimeout(timeout), then
\* timeout = setTimeout(later, wait); the timer of call number n has id n
executedFunction(db, timers, args) ==
    LET id == Len(db.calls) + 1
    IN  [db |-> [db EXCEPT !.timeout = id, !.calls = Append(@, args), !.sinceCall = 0],
         timers |-> Append(clearTimeout(timers, db.timeout), [id |-> id, waited |-> 0])]

\* the timer t runs later: clearTimeout(timeout), then func with the
\* arguments of the call that set t
later(db, timers, t) ==
    [db |-> [db EXCEPT !.runs = Append(@, [call |-> t.id, made |-> Len(db.calls),
                                           waited |-> t.waited])],
     timers |-> clearTimeout(SelectSeq(timers, LAMBDA u : u.id # t.id), db.timeout)]

\* part_001 with both files imported, the list a, ab, b not yet rendered
InitDebounce ==
    /\ \E r \in {Imported(<<>>, << <<"a">>, <<"a", "b">>, <<"b">> >>, FALSE)} :
          /\ state = r.st
          /\ dom = r.dm
    /\ pending = <<>>
    /\ static = NoDebounce
    /\ last = NoEvent
    /\ hist = NoHistory
    /\ MainOff

\* an input event of the search box: the debounced handler is called
InputEvent(str) ==
    /\ Len(static.calls) < MaxCalls
    /\ dom' = [dom EXCEPT !.searchInput = str]
    /\ \E r \in {executedFunction(static, pending, str)} :
          /\ static' = r.db
          /\ pending' = r.timers
    /\ last' = [NoEvent EXCEPT !.op = "input"]
    /\ UNCHANGED <<state, hist>>
    /\ UNCHANGED mainVars

\* time passes; a timer may run late
Tick ==
    /\ \E i \in DOMAIN pending : pending[i].waited < debounceTicks
    /\ pending' = [i \in DOMAIN pending |->
                      [pending[i] EXCEPT !.waited = Min(@ + 1, debounceTicks)]]
    /\ static' = [static EXCEPT !.sinceCall = Min(@ + 1, debounceTicks)]
    /\ last' = [NoEvent EXCEPT !.op = "tick"]
    /\ UNCHANGED <<state, dom, hist>>
    /\ UNCHANGED mainVars

\* a timer that has waited long enough runs: later, and in it
\* handleSearchInput
TimerRuns ==
    /\ \E i \in DOMAIN pending :
          /\ pending[i].waited >= debounceTicks
          /\ \E r \in {later(static, pending, pending[i])} :
                /\ static' = r.db
                /\ pending' = r.timers
    /\ dom' = renderResults(state, dom)
    /\ last' = [NoEvent EXCEPT !.op = "search"]
    /\ UNCHANGED <<state, hist>>
    /\ UNCHANGED mainVars

NextDebounce ==
    \/ \E str \in TypedStrings : InputEvent(str)
    \/ Tick
    \/ TimerRuns

SpecDebounce == InitDebounce /\ [][NextDebounce]_vars

\* timers run no earlier than their delay and are not held back for ever
SpecDebounceFair == SpecDebounce /\ WF_vars(Tick) /\ WF_vars(TimerRuns)

\* the wrapped function ran only when debounceTicks had passed since the most
\* recent call, for the most recent call, and at most once for a call; the
\* only timer that is set is that of the most recent call
DebounceSafe ==
    /\ \A k \in DOMAIN static.runs :
          /\ static.runs[k].waited >= debounceTicks
          /\ static.runs[k].call = static.runs[k].made
          /\ \A j \in DOMAIN static.runs : static.runs[j].call = static.runs[k].call => j = k
    /\ \A i \in DOMAIN pending : pending[i].id = Len(static.calls)
    /\ Len(pending) <= 1

\* the typing has stopped, no timer is set, the wrapped function has run for
\* the last call, and the list shown is the one of the final search term
DebounceSettled ==
    /\ pending = <<>>
    /\ static.calls # <<>> =>
          /\ static.runs # <<>>
          /\ static.runs[Len(static.runs)].call = Len(static.calls)
          /\ Displayed = Containing(state.nonFollowers,
                                    trim(static.calls[Len(static.calls)]))

\* C30: the wrapped function runs only after the wait has passed with no
\* further call, once, for the most recent call; a call followed by another
\* call before its timer ran never runs it; and once the calls stop the list
\* is in the end rendered for the final search term.
C30_DebounceRunsLastCallOnce == []DebounceSafe /\ <>[]DebounceSettled

\* three calls were made, the second and the third after a run each, and the
\* list shows the match of the last term, ' B'
C30_Witness ==
    /\ Len(static.calls) = MaxCalls
    /\ static.calls[Len(static.calls)] = <<" ", "B">>
    /\ Len(static.runs) = 2
    /\ static.runs[2].call = MaxCalls
    /\ pending = <<>>
    /\ Displayed = << <<"a", "b">>, <<"b">> >>

====
